---- MODULE Spec2Model ----
(***************************************************************************)
(* smoothloop.py: construction of a seamless loop in a PCM wave sample.    *)
(*                                                                         *)
(* process() decodes the frames, do_crossfade_loop_mix() plans the loop,   *)
(* crossfades the tail into the loop region, resizes the array and copies  *)
(* the extra after-loop frames, do_wave_fade_in() fades the beginning in,  *)
(* finalize_processing() serialises the array and fills the smpl chunk.    *)
(*                                                                         *)
(* Numbers.  Times are rationals num/den seconds; the explored options use *)
(* den = 2, for which the float product seconds * framerate is exact.      *)
(* Slider weights (float64 in the program) are fixed-point numerators over *)
(* WDen; an integer array cell written through a ufunc is truncated        *)
(* toward zero, as the C cast from double does (the numpy of the program's *)
(* time casts ufunc output to the output array's type).  The fixed-point   *)
(* weights are within 1/WScale of the float64 ones, which are themselves   *)
(* off the real cosine by some 1e-16 (fadeIn of 2 rows is 0, 0.4999999...):*)
(* a stored cell may differ by one unit from the program's wherever the    *)
(* exact product is a whole number.                                        *)
(***************************************************************************)
EXTENDS Integers, Sequences, FiniteSets, TLC

VARIABLES
    pc,              \* position inside process()
    src_frames_str,  \* the argument of process(): the raw frame bytes
    in_params,       \* the argument of process(): the caller's WaveParams
    opts,            \* the argument of process(): the option values
    main_wave,       \* main_wave.array: [shape, data], data flat in C order
    side_results,    \* the side_results dict: key -> packed bytes
    wave_params,     \* process()'s local wave_params (rebound by each step)
    plan,            \* the locals of do_crossfade_loop_mix
    error,           \* the exception that left process(), or "none"
    result,          \* the triple returned by process()
    windows,         \* the slices of main_wave.array taken, and its resizes
    file_index,      \* main(): the index i of the file being processed
    calls,           \* the process() calls completed before this one
    main_pc,         \* position inside main()
    file_names,      \* main(): the file names of the command line
    overwrite,       \* main(): opts.overwrite
    disk,            \* the files: name -> parameters, frames, appended bytes
    io_log,          \* what main() did to the files and logged, in order
    exit_status,     \* the exit status of the run, -1 while it runs
    sl_pc,           \* slider study: position
    sl_args,         \* slider study: mix_length, nchannels, sampwidth, cells
    sl_fade_in,      \* slider study: the fade_in_slider array
    sl_fade_out,     \* slider study: the fade_out_slider array
    sl_mixed,        \* slider study: the window after the crossfade
    ax_pc,           \* auxmethods: "ready", "running" or "done"
    ax_defs,         \* auxmethods: per class of the MRO, the methods it defines
    ax_stack,        \* auxmethods: the call stack, innermost frame last
    ax_trace,        \* auxmethods: the calls and returns so far
    ax_ret,          \* auxmethods: the value the last finished frame returned
    ax_result        \* auxmethods: the value the wrapper returned

\* The variables of process().
pvars == <<pc, src_frames_str, in_params, opts, main_wave, side_results,
           wave_params, plan, error, result, windows>>

\* The variables of main() around process().
mvars == <<main_pc, file_names, overwrite, disk, io_log, exit_status>>

bvars == <<file_index, calls, mvars>>

\* The variables of the study of the sliders alone.
svars == <<sl_pc, sl_args, sl_fade_in, sl_fade_out, sl_mixed>>

\* The variables of the aux-method dispatch of auxmethods.py.
avars == <<ax_pc, ax_defs, ax_stack, ax_trace, ax_ret, ax_result>>

\* Everything process() has no access to.
outside == <<bvars, svars, avars>>

vars == <<pc, src_frames_str, in_params, opts, main_wave, side_results,
          wave_params, plan, error, result, windows, outside>>

----------------------------------------------------------------------------
(* Bounds of the explored inputs. *)

MaxFrames == 6

MaxTimeNum == 2

MaxRate == 2

MaxFadeNum == 3

MaxSliderLen == 8

MaxFiles == 3

MaxClasses == 2

----------------------------------------------------------------------------
(* Integer helpers. *)

Abs(x) == IF x < 0 THEN -x ELSE x

Min(a, b) == IF a < b THEN a ELSE b

Max(a, b) == IF a < b THEN b ELSE a

\* Division truncating toward zero: Python's int() of a float, C's cast of a
\* double to an integer type.  d > 0.
TruncDiv(n, d) == IF n >= 0 THEN n \div d ELSE -((-n) \div d)

RECURSIVE Pow256(_)
Pow256(k) == IF k = 0 THEN 1 ELSE 256 * Pow256(k - 1)

RECURSIVE Product(_)
Product(s) == IF s = <<>> THEN 1 ELSE Head(s) * Product(Tail(s))

RECURSIVE Flatten(_)
Flatten(ss) == IF ss = <<>> THEN <<>> ELSE Head(ss) \o Flatten(Tail(ss))

----------------------------------------------------------------------------
(* Byte strings. *)

SAMPWIDTHS == {2, 4}

\* A signed little-endian integer of `width` bytes (ndarray.tostring of one
\* int16/int32 cell).
SampleToBytes(v, width) == [j \in 1..width |-> (v \div Pow256(j - 1)) % 256]

\* The cell fromstring() reads from `width` little-endian bytes.
SampleFromBytes(b, width) ==
    LET top == IF b[width] >= 128 THEN b[width] - 256 ELSE b[width]
        RECURSIVE Low(_)
        Low(j) == IF j = 0 THEN 0 ELSE b[j] * Pow256(j - 1) + Low(j - 1)
    IN  top * Pow256(width - 1) + Low(width - 1)

\* Mutant: the offset packed big-endian ('>L').
PackUint32BE(x) == [j \in 1..4 |-> (x \div Pow256(4 - j)) % 256]

\* struct.pack('<L', x) for 0 <= x < 2^32.
PackUint32LE(x) == [j \in 1..4 |-> (x \div Pow256(j - 1)) % 256]

\* struct.unpack('<L', b) for values below 2^31.
UnpackUint32LE(b) == b[1] + 256 * b[2] + 65536 * b[3] + 16777216 * b[4]

\* numpy.fromstring(s, typecode): a 1-D array of the cells of s.
fromstring(s, width) ==
    LET n == Len(s) \div width
    IN  [shape |-> <<n>>,
         data  |-> [k \in 1..n |->
                      SampleFromBytes(SubSeq(s, (k - 1) * width + 1, k * width),
                                      width)]]

\* ndarray.tostring(): the cells in C order.
tostring(a, width) ==
    Flatten([k \in 1..Len(a.data) |-> SampleToBytes(a.data[k], width)])

----------------------------------------------------------------------------
(* Arrays: [shape |-> <<n>> or <<n, m>>, data |-> the cells in C order]. *)

ErrShape == <<-1>>

NRows(a) == a.shape[1]

RowLen(a) == Product(Tail(a.shape))

\* a[lo:hi] for 0 <= lo, 0 <= hi: the bounds are clipped to the array.
SliceLo(a, lo) == Min(lo, NRows(a))

SliceHi(a, lo, hi) == Max(SliceLo(a, lo), Min(hi, NRows(a)))

Slice(a, lo, hi) ==
    LET l == SliceLo(a, lo)
        h == SliceHi(a, lo, hi)
    IN  [shape |-> <<h - l>> \o Tail(a.shape),
         data  |-> SubSeq(a.data, l * RowLen(a) + 1, h * RowLen(a))]

\* Mutant: the write lands at the start of the array, the offset of the
\* view lost.
WriteRows_AtStart(a, lo, w) ==
    [a EXCEPT !.data =
        [k \in 1..Len(a.data) |->
            IF k <= Len(w.data) THEN w.data[k] ELSE a.data[k]]]

\* The array with the cells of rows [lo, lo + rows of w) replaced by w.data:
\* a write through the view a[lo:hi].
WriteRows(a, lo, w) ==
    LET off == SliceLo(a, lo) * RowLen(a)
    IN  [a EXCEPT !.data =
            [k \in 1..Len(a.data) |->
                IF k > off /\ k <= off + Len(w.data)
                THEN w.data[k - off] ELSE a.data[k]]]

\* Mutant: a fresh zero-filled array of the new shape.
Resize_Fresh(a, shape) ==
    [shape |-> shape, data |-> [k \in 1..Product(shape) |-> 0]]

\* ndarray.resize(shape) in place: the flat data cut or padded with zeros.
Resize(a, shape) ==
    [shape |-> shape,
     data  |-> [k \in 1..Product(shape) |->
                  IF k <= Len(a.data) THEN a.data[k] ELSE 0]]

\* Broadcasting of two shapes of one or two dimensions.
Pad2(s) == IF Len(s) = 1 THEN <<1, s[1]>> ELSE s

DimOK(d, e) == d = e \/ d = 1 \/ e = 1

DimOf(d, e) == IF d = 1 THEN e ELSE d

BroadcastShape(s, t) ==
    LET p == Pad2(s)
        q == Pad2(t)
    IN  IF ~(DimOK(p[1], q[1]) /\ DimOK(p[2], q[2])) THEN ErrShape
        ELSE IF Len(s) = 1 /\ Len(t) = 1 THEN <<DimOf(p[2], q[2])>>
        ELSE <<DimOf(p[1], q[1]), DimOf(p[2], q[2])>>

\* Cell (r, c), 0-based, of a seen through broadcasting.
Cell(a, r, c) ==
    LET p == Pad2(a.shape)
        rr == IF p[1] = 1 THEN 0 ELSE r
        cc == IF p[2] = 1 THEN 0 ELSE c
    IN  a.data[rr * p[2] + cc + 1]

\* Cell k (1-based, C order) of a broadcast to the shape s.
CellAt(a, s, k) ==
    Cell(a, (k - 1) \div Pad2(s)[2], (k - 1) % Pad2(s)[2])

----------------------------------------------------------------------------
(* The cosine sliders. *)

\* Resolution of the fixed-point cosine; a weight is a numerator over WDen.
WScale == 10000

WDen == 2 * WScale

\* The Taylor series of the cosine from term t (of index k) on, in fixed point.
RECURSIVE CosSeries(_, _, _)
CosSeries(t, x2, k) ==
    IF k > 6 THEN 0
    ELSE t + CosSeries(-TruncDiv(t * x2, WScale * (2 * k + 1) * (2 * k + 2)),
                       x2, k + 1)

\* numpy.cos of the angle pi * p / q, times WScale (0 <= p <= 2q, q >= 1).
RECURSIVE CosFP(_, _)
CosFP(p, q) ==
    IF p > q THEN CosFP(2 * q - p, q)
    ELSE IF 2 * p > q THEN -CosFP(q - p, q)
    ELSE LET x == (31416 * p) \div q
         IN  CosSeries(WScale, (x * x) \div WScale, 0)

\* Lengths n for which ceil((stop - start) / (pi / n)), arange's length in
\* float64 arithmetic, is n + 1 instead of n (the four smallest).
ArangeRoundUp == {61, 122, 197, 244}

\* Mutant: the end point included, as linspace would.
ArangeLen_Inclusive(start_x, stop_x, mix_length) ==
    (stop_x - start_x) * mix_length + 1

\* len(arange(start_x, stop_x, pi / mix_length)), start_x and stop_x in
\* units of pi.
ArangeLen(start_x, stop_x, mix_length) ==
    (stop_x - start_x) * mix_length
        + (IF mix_length \in ArangeRoundUp THEN 1 ELSE 0)

\* pi / mix_length raises ZeroDivisionError.
SliderRaises(mix_length) == mix_length = 0

\* _make_cosinus_slider(start_x, stop_x, mix_length, nchannels) for
\* mix_length > 0: row i holds (cos(start_x + i * pi / mix_length) + 1) / 2 in
\* each of the nchannels columns.
make_cosinus_slider(start_x, stop_x, mix_length, nchannels) ==
    LET len == ArangeLen(start_x, stop_x, mix_length)
    IN  [shape |-> <<len, nchannels>>,
         data  |-> [k \in 1..(len * nchannels) |->
                      CosFP(start_x * mix_length + ((k - 1) \div nchannels),
                            mix_length) + WScale]]

\* int cell * float weight, as a numerator over WDen.
Times(v, w) == v * w

\* The int cell a ufunc stores for cell * weight: the product cast to int.
TimesCast(v, w) == TruncDiv(v * w, WDen)

\* The int cell a ufunc stores for int cell + float cell (numerator c).
PlusCast(v, c) ==
    LET whole == v + (c \div WDen)
    IN  IF whole < 0 /\ c % WDen > 0 THEN whole + 1 ELSE whole

\* multiply(place, slider, place) / add(place, clipboard, place): the output
\* array must have the broadcast shape of the operands.
UfuncOutOK(place, other) ==
    BroadcastShape(place.shape, other.shape) = place.shape

\* window * slider: a new float array of the broadcast shape.
Multiply(window, slider) ==
    LET s == BroadcastShape(window.shape, slider.shape)
    IN  [shape |-> s,
         data  |-> [k \in 1..Product(s) |->
                      Times(CellAt(window, s, k), CellAt(slider, s, k))]]

\* multiply(place, slider, place): the cells place holds afterwards.
MultiplyInto(place, slider) ==
    LET s == BroadcastShape(place.shape, slider.shape)
    IN  [shape |-> s,
         data  |-> [k \in 1..Product(s) |->
                      TimesCast(CellAt(place, s, k), CellAt(slider, s, k))]]

\* add(place, clipboard, place): the cells place holds afterwards.
AddInto(place, clipboard) ==
    LET s == BroadcastShape(place.shape, clipboard.shape)
    IN  [shape |-> s,
         data  |-> [k \in 1..Product(s) |->
                      PlusCast(CellAt(place, s, k), CellAt(clipboard, s, k))]]

----------------------------------------------------------------------------
(* The loop plan: the locals of do_crossfade_loop_mix. *)

\* Mutant: rounding to the nearest frame, halves upward.
Frames_Rounds(num, den, framerate) ==
    TruncDiv(2 * num * framerate + den, 2 * den)

\* int(seconds * framerate) for seconds = num / den.
Frames(num, den, framerate) == TruncDiv(num * framerate, den)

PlanOf(wp, o) ==
    LET mix_length == Frames(o.cf_length, o.den, wp.framerate)
        src_start == Frames(o.cf_source, o.den, wp.framerate)
        src_stop == src_start + mix_length
        cut_length == Frames(o.cf_cut, o.den, wp.framerate)
        dest_stop == wp.nframes - cut_length
        dest_start == dest_stop - mix_length
        extra_length == Frames(o.cf_extra, o.den, wp.framerate)
    IN  [mix_length |-> mix_length, src_start |-> src_start,
         src_stop |-> src_stop, cut_length |-> cut_length,
         dest_stop |-> dest_stop, dest_start |-> dest_start,
         extra_length |-> extra_length,
         new_nframes |-> dest_stop + extra_length]

\* Mutant: the 'too short' check left out.
PlanError_NoShortCheck(p) ==
    IF p.src_stop + p.extra_length > p.dest_stop THEN "extra_too_wide"
    ELSE "none"

\* Mutant: the 'extra too wide' check left out.
PlanError_NoExtraCheck(p) ==
    IF p.src_stop > p.dest_start THEN "too_short" ELSE "none"

\* Mutant: the 'too short' check with >= for >.
PlanError_OffByOne(p) ==
    IF p.src_stop >= p.dest_start THEN "too_short"
    ELSE IF p.src_stop + p.extra_length > p.dest_stop THEN "extra_too_wide"
    ELSE "none"

\* Mutant: the 'extra too wide' check made first.
PlanError_ExtraFirst(p) ==
    IF p.src_stop + p.extra_length > p.dest_stop THEN "extra_too_wide"
    ELSE IF p.src_stop > p.dest_start THEN "too_short"
    ELSE "none"

\* The two checks, in the order of the code.
PlanError(p) ==
    IF p.src_stop > p.dest_start THEN "too_short"
    ELSE IF p.src_stop + p.extra_length > p.dest_stop THEN "extra_too_wide"
    ELSE "none"

NoPlan ==
    [mix_length |-> 0, src_start |-> 0, src_stop |-> 0, cut_length |-> 0,
     dest_stop |-> 0, dest_start |-> 0, extra_length |-> 0, new_nframes |-> 0]

----------------------------------------------------------------------------
(* The smpl chunk. *)

Lit(bytes) == [key |-> "", lit |-> bytes]

Field(name) == [key |-> name, lit |-> <<>>]

\* Mutant: the two fields one group too late in the template.
WAVE_SMPL_CHUNK_FieldsLate ==
    << Lit(<<115, 109, 112, 108>>), Lit(<<60, 0, 0, 0>>), Lit(<<0, 0, 0, 0>>),
       Lit(<<0, 0, 0, 0>>), Lit(<<0, 0, 0, 0>>), Lit(<<0, 0, 0, 0>>),
       Lit(<<0, 0, 0, 0>>), Lit(<<0, 0, 0, 0>>), Lit(<<0, 0, 0, 0>>),
       Lit(<<1, 0, 0, 0>>), Lit(<<24, 0, 0, 0>>), Lit(<<0, 0, 0, 0>>),
       Lit(<<0, 0, 0, 0>>), Lit(<<0, 0, 0, 0>>), Field("loop_start"),
       Field("loop_stop"), Lit(<<0, 0, 0, 0>>) >>

\* WAVE_SMPL_CHUNK: thirteen constant 4-byte groups, the two replacement
\* fields, two constant groups.
WAVE_SMPL_CHUNK ==
    << Lit(<<115, 109, 112, 108>>), Lit(<<60, 0, 0, 0>>), Lit(<<0, 0, 0, 0>>),
       Lit(<<0, 0, 0, 0>>), Lit(<<0, 0, 0, 0>>), Lit(<<0, 0, 0, 0>>),
       Lit(<<0, 0, 0, 0>>), Lit(<<0, 0, 0, 0>>), Lit(<<0, 0, 0, 0>>),
       Lit(<<1, 0, 0, 0>>), Lit(<<24, 0, 0, 0>>), Lit(<<0, 0, 0, 0>>),
       Lit(<<0, 0, 0, 0>>), Field("loop_start"), Field("loop_stop"),
       Lit(<<0, 0, 0, 0>>), Lit(<<0, 0, 0, 0>>) >>

\* Mutant: the fields replaced by nothing.
Format_DropsFields(template, values) ==
    Flatten([i \in 1..Len(template) |->
               IF template[i].key = "" THEN template[i].lit ELSE <<>>])

\* template.format(**values): every field replaced by its value.
Format(template, values) ==
    Flatten([i \in 1..Len(template) |->
               IF template[i].key = "" THEN template[i].lit
               ELSE values[template[i].key]])

\* The side_results entries do_crossfade_loop_mix records.
LoopOffsets(p) ==
    [k \in {"loop_start", "loop_stop"} |->
        IF k = "loop_start" THEN PackUint32LE(p.src_stop)
        ELSE PackUint32LE(p.dest_stop)]

----------------------------------------------------------------------------
(* The inputs of process(). *)

\* Largest magnitude of the explored cells of each sample width.
SampleTop(width) == IF width = 2 THEN 32767 ELSE 100000

\* Cell k (0-based, C order) of the explored wave `seed`.
SampleAt(seed, width, k) ==
    IF seed = 0
    THEN (IF k % 2 = 0 THEN 4 * (k + 1) ELSE -(4 * (k + 1)))
    ELSE (IF k % 2 = 0 THEN SampleTop(width) - k ELSE k - SampleTop(width) - 1)

\* wave_read.readframes(nframes): nframes * nchannels * sampwidth bytes.
ReadFrames(seed, wp) ==
    Flatten([k \in 1..(wp.nframes * wp.nchannels) |->
               SampleToBytes(SampleAt(seed, wp.sampwidth, k - 1), wp.sampwidth)])

WaveParamsSet ==
    [nchannels : {1, 2}, sampwidth : SAMPWIDTHS, framerate : 1..MaxRate,
     nframes : 0..MaxFrames]

\* Option values in half seconds.
OptsSet ==
    [cf_source : 0..MaxTimeNum, cf_length : 0..MaxTimeNum,
     cf_cut : 0..MaxTimeNum, cf_extra : 0..MaxTimeNum,
     wave_fade_in : 0..MaxFadeNum, den : {2}]

NoArray == [shape |-> <<0>>, data |-> <<>>]

NoResult == [result_frames |-> <<>>, to_append_str |-> <<>>,
             wave_params |-> [nchannels |-> 0, sampwidth |-> 0,
                              framerate |-> 0, nframes |-> 0]]

\* A name of the file system: base + ext, or base + filename_suffix + ext.
Names == [base : 1..MaxFiles, suffix : BOOLEAN]

NoFile == [exists |-> FALSE, wp |-> NoResult.wave_params, frames |-> <<>>,
           tail |-> <<>>]

\* main() not run.
MainIdle ==
    /\ main_pc = "idle"
    /\ file_names = <<>>
    /\ overwrite = FALSE
    /\ disk = [nm \in Names |-> NoFile]
    /\ io_log = <<>>
    /\ exit_status = -1

\* No file handled yet.
BatchIdle == file_index = 0 /\ calls = <<>>

NoSlider == [shape |-> <<0, 0>>, data |-> <<>>]

\* No slider study under way.
SliderIdle ==
    /\ sl_pc = "idle"
    /\ sl_args = <<>>
    /\ sl_fade_in = NoSlider
    /\ sl_fade_out = NoSlider
    /\ sl_mixed = NoArray

\* The value None, and the value a method of a class returns by itself.
None == <<"None", 0>>

Val(meth, cls) == <<meth, cls>>

\* No aux-method call under way.
AuxIdle ==
    /\ ax_pc = "idle"
    /\ ax_defs = <<>>
    /\ ax_stack = <<>>
    /\ ax_trace = <<>>
    /\ ax_ret = None
    /\ ax_result = None

\* The bookkeeping of the references to main_wave.array: how many in-place
\* resizes it has had, the slices of it that local names still refer to (each
\* with the number of resizes done when it was taken), the slices that were
\* alive at each resize, and the slices read or written (each with the number
\* of resizes done when it was used).
NoWindows == [resizes |-> 0, live |-> {}, at_resize |-> <<>>, used |-> {}]

\* name = main_wave.array[lo:hi]
Take(w, names) ==
    [w EXCEPT !.live = @ \cup {[name |-> n, taken |-> w.resizes] : n \in names}]

\* The slices of these names read or written by a ufunc or an assignment.
Use(w, names) ==
    [w EXCEPT !.used = @ \cup {[name |-> v.name, taken |-> v.taken,
                                used |-> w.resizes] :
                                   v \in {x \in w.live : x.name \in names}}]

\* del name, ...; also the end of a temporary.
Del(w, names) == [w EXCEPT !.live = {v \in @ : v.name \notin names}]

\* main_wave.array.resize(...), in place.
ResizeInPlace(w) ==
    [w EXCEPT !.resizes = @ + 1,
              !.at_resize = Append(@, {v.name : v \in w.live})]

\* The function returns: its local names are gone.
Return(w) == [w EXCEPT !.live = {}]

Init ==
    /\ BatchIdle
    /\ MainIdle
    /\ SliderIdle
    /\ AuxIdle
    /\ pc = "start"
    /\ in_params \in WaveParamsSet
    /\ opts \in OptsSet
    /\ \E seed \in {0, 1} : src_frames_str = ReadFrames(seed, in_params)
    /\ wave_params = in_params
    /\ main_wave = NoArray
    /\ side_results = <<>>
    /\ plan = NoPlan
    /\ error = "none"
    /\ result = NoResult
    /\ windows = NoWindows

Raise(exc) ==
    /\ pc' = "raised"
    /\ error' = exc

\* The array process() builds from the frame bytes: 1-D for one channel,
\* (nframes x nchannels) otherwise.
DecodeOf(s, wp) ==
    LET flat == fromstring(s, wp.sampwidth)
    IN  IF wp.nchannels > 1
        THEN Resize(flat, <<wp.nframes, wp.nchannels>>)
        ELSE flat

\* process(): decode the frames, start with empty side results.
Decode ==
    /\ pc = "start"
    /\ UNCHANGED outside
    /\ main_wave' = DecodeOf(src_frames_str, wave_params)
    /\ windows' = IF wave_params.nchannels > 1 THEN ResizeInPlace(windows)
                  ELSE windows
    /\ side_results' = <<>>
    /\ pc' = "decoded"
    /\ UNCHANGED <<src_frames_str, in_params, opts, wave_params, plan, error,
                   result>>

\* Mutant: the loop offsets recorded before the checks.
Plan_RecordsFirst ==
    /\ pc = "decoded"
    /\ UNCHANGED outside
    /\ UNCHANGED windows
    /\ plan' = PlanOf(wave_params, opts)
    /\ side_results' = LoopOffsets(plan')
    /\ IF PlanError(plan') # "none"
       THEN Raise(PlanError(plan'))
       ELSE pc' = "planned" /\ error' = error
    /\ UNCHANGED <<src_frames_str, in_params, opts, main_wave, wave_params,
                   result>>

\* Mutant: the cut tail dropped from the buffer while the plan is computed.
Plan_TrimsWave ==
    /\ pc = "decoded"
    /\ UNCHANGED outside
    /\ UNCHANGED windows
    /\ plan' = PlanOf(wave_params, opts)
    /\ main_wave' = Slice(main_wave, 0, Max(plan'.dest_stop, 0))
    /\ IF PlanError(plan') # "none"
       THEN Raise(PlanError(plan'))
       ELSE pc' = "planned" /\ error' = error
    /\ UNCHANGED <<src_frames_str, in_params, opts, side_results, wave_params,
                   result>>

\* do_crossfade_loop_mix, "prepare basic values".
Plan ==
    /\ pc = "decoded"
    /\ UNCHANGED outside
    /\ UNCHANGED windows
    /\ plan' = PlanOf(wave_params, opts)
    /\ IF PlanError(plan') # "none"
       THEN Raise(PlanError(plan'))
       ELSE pc' = "planned" /\ error' = error
    /\ UNCHANGED <<src_frames_str, in_params, opts, main_wave, side_results,
                   wave_params, result>>

\* do_crossfade_loop_mix, "do crossfade mix" and the loop offsets.
Mix ==
    /\ pc = "planned"
    /\ UNCHANGED outside
    /\ LET fade_in_src == Slice(main_wave, plan.src_start, plan.src_stop)
           fade_out_place == Slice(main_wave, plan.dest_start, plan.dest_stop)
           fade_in_slider ==
               make_cosinus_slider(1, 2, plan.mix_length, wave_params.nchannels)
           fade_out_slider ==
               make_cosinus_slider(0, 1, plan.mix_length, wave_params.nchannels)
           fade_in_clipboard == Multiply(fade_in_src, fade_in_slider)
           faded_out == MultiplyInto(fade_out_place, fade_out_slider)
           mixed == AddInto(faded_out, fade_in_clipboard)
           taken == Take(windows, {"fade_in_src", "fade_out_place"})
           used == Use(taken, {"fade_in_src", "fade_out_place"})
       IN  IF SliderRaises(plan.mix_length)
           THEN /\ Raise("ZeroDivisionError")
                /\ windows' = taken
                /\ UNCHANGED <<main_wave, side_results>>
           ELSE IF \/ BroadcastShape(fade_in_src.shape, fade_in_slider.shape)
                        = ErrShape
                   \/ ~UfuncOutOK(fade_out_place, fade_out_slider)
           THEN /\ Raise("ValueError")
                /\ windows' = used
                /\ UNCHANGED <<main_wave, side_results>>
           ELSE IF ~UfuncOutOK(faded_out, fade_in_clipboard)
           THEN /\ Raise("ValueError")
                /\ windows' = used
                /\ main_wave' = WriteRows(main_wave, plan.dest_start, faded_out)
                /\ UNCHANGED side_results
           ELSE /\ main_wave' = WriteRows(main_wave, plan.dest_start, mixed)
                /\ windows' = used
                /\ side_results' = LoopOffsets(plan)
                /\ pc' = "mixed"
                /\ error' = error
    /\ UNCHANGED <<src_frames_str, in_params, opts, wave_params, plan, result>>

\* Mutant: the extra frames taken from the start of the mix source window.
ExtraSource_FromSrcStart(a, p) ==
    Slice(a, p.src_start, p.src_start + p.extra_length)

\* main_wave.array[src_stop:(src_stop + extra_length)]: the frames right after
\* the mix source window.
ExtraSource(a, p) == Slice(a, p.src_stop, p.src_stop + p.extra_length)

\* Mutant: the two windows of the mix not deleted before the resize.
WindowsAfterResize_KeepsWindows(w, p, nframes) ==
    LET held == IF p.dest_stop + p.extra_length # nframes
                THEN ResizeInPlace(w)
                ELSE w
        temps == {"extra_source", "extra_place"}
    IN  Return(IF p.extra_length # 0
               THEN Del(Use(Take(held, temps), temps), temps)
               ELSE held)

\* The slices at work after "resize wave, if needed": the two windows of the
\* mix deleted and the array resized when the frame count changes, the two
\* temporaries of the extra copy taken and used, the locals gone at the
\* return.
WindowsAfterResize(w, p, nframes) ==
    LET held == IF p.dest_stop + p.extra_length # nframes
                THEN ResizeInPlace(Del(w, {"fade_in_src", "fade_out_place"}))
                ELSE w
        temps == {"extra_source", "extra_place"}
    IN  Return(IF p.extra_length # 0
               THEN Del(Use(Take(held, temps), temps), temps)
               ELSE held)

\* do_crossfade_loop_mix, "resize wave" and "add extra samples", and the
\* wave_params it returns. ndarray.resize refuses (ValueError) to work on an
\* array that a slice still refers to.
ResizeAndExtra ==
    /\ pc = "mixed"
    /\ UNCHANGED outside
    /\ LET new_nframes == plan.dest_stop + plan.extra_length
           resized ==
               IF new_nframes # wave_params.nframes
               THEN Resize(main_wave, <<new_nframes, wave_params.nchannels>>)
               ELSE main_wave
           extra == ExtraSource(resized, plan)
           place == Slice(resized, plan.dest_stop, new_nframes)
           after == WindowsAfterResize(windows, plan, wave_params.nframes)
       IN  IF /\ after.resizes # windows.resizes
              /\ after.at_resize[after.resizes] # {}
           THEN /\ Raise("ValueError")
                /\ windows' = [after EXCEPT !.live = windows.live,
                                            !.used = windows.used]
                /\ UNCHANGED <<main_wave, wave_params>>
           ELSE IF plan.extra_length # 0 /\ extra.shape # place.shape
           THEN /\ Raise("ValueError")
                /\ main_wave' = resized
                /\ windows' = after
                /\ UNCHANGED wave_params
           ELSE /\ main_wave' =
                     IF plan.extra_length # 0
                     THEN WriteRows(resized, plan.dest_stop, extra)
                     ELSE resized
                /\ windows' = after
                /\ wave_params' = [wave_params EXCEPT !.nframes = new_nframes]
                /\ pc' = "resized"
                /\ error' = error
    /\ UNCHANGED <<src_frames_str, in_params, opts, side_results, plan, result>>

\* do_wave_fade_in.
WaveFadeIn ==
    /\ pc = "resized"
    /\ UNCHANGED outside
    /\ LET fade_in_len ==
               Frames(opts.wave_fade_in, opts.den, wave_params.framerate)
           fade_in_place == Slice(main_wave, 0, fade_in_len)
           fade_in_slider ==
               make_cosinus_slider(1, 2, fade_in_len, wave_params.nchannels)
           taken == Take(windows, {"fade_in_place"})
           used == Use(taken, {"fade_in_place"})
       IN  IF SliderRaises(fade_in_len)
           THEN /\ Raise("ZeroDivisionError")
                /\ windows' = taken
                /\ UNCHANGED main_wave
           ELSE IF ~UfuncOutOK(fade_in_place, fade_in_slider)
           THEN /\ Raise("ValueError")
                /\ windows' = used
                /\ UNCHANGED main_wave
           ELSE /\ windows' = Return(used)
                /\ main_wave' =
                     WriteRows(main_wave, 0,
                               MultiplyInto(fade_in_place, fade_in_slider))
                /\ pc' = "fadedin"
                /\ error' = error
    /\ UNCHANGED <<src_frames_str, in_params, opts, side_results, wave_params,
                   plan, result>>

\* Mutant: the frames encoded right after the resize, before the fade-in.
Finalize_BeforeFadeIn ==
    /\ pc = "resized"
    /\ UNCHANGED outside
    /\ UNCHANGED windows
    /\ result' = [result_frames |-> tostring(main_wave, wave_params.sampwidth),
                  to_append_str |-> Format(WAVE_SMPL_CHUNK, side_results),
                  wave_params |-> wave_params]
    /\ pc' = "returned"
    /\ UNCHANGED <<src_frames_str, in_params, opts, main_wave, side_results,
                   wave_params, plan, error>>

\* finalize_processing, and the return of process().
Finalize ==
    /\ pc = "fadedin"
    /\ UNCHANGED outside
    /\ UNCHANGED windows
    /\ result' = [result_frames |-> tostring(main_wave, wave_params.sampwidth),
                  to_append_str |-> Format(WAVE_SMPL_CHUNK, side_results),
                  wave_params |-> wave_params]
    /\ pc' = "returned"
    /\ UNCHANGED <<src_frames_str, in_params, opts, main_wave, side_results,
                   wave_params, plan, error>>

Next ==
    \/ Decode
    \/ Plan
    \/ Mix
    \/ ResizeAndExtra
    \/ WaveFadeIn
    \/ Finalize

Spec == Init /\ [][Next]_vars

----------------------------------------------------------------------------
(* The sliders and the blend on their own: _make_cosinus_slider and the three
   ufunc calls of the mix, applied to windows of one old_dest and one old_src
   value. *)

\* No process() call under way.
ProcessIdle ==
    /\ pc = "idle"
    /\ src_frames_str = <<>>
    /\ in_params = NoResult.wave_params
    /\ wave_params = NoResult.wave_params
    /\ opts = [cf_source |-> 0, cf_length |-> 0, cf_cut |-> 0, cf_extra |-> 0,
               wave_fade_in |-> 0, den |-> 1]
    /\ main_wave = NoArray
    /\ side_results = <<>>
    /\ plan = NoPlan
    /\ error = "none"
    /\ result = NoResult
    /\ windows = NoWindows

\* The int16 / int32 range of a sample width.
IntMax(width) == IF width = 2 THEN 32767 ELSE 2147483647

IntMin(width) == -IntMax(width) - 1

\* The explored cell values of a sample width.
CellValues(width) ==
    {-SampleTop(width) - 1, -3, 0, 3, SampleTop(width)}

SliderArgsSet ==
    {a \in [mix_length : 1..MaxSliderLen, nchannels : {1, 2},
            sampwidth : SAMPWIDTHS,
            dest : UNION {CellValues(w) : w \in SAMPWIDTHS},
            src : UNION {CellValues(w) : w \in SAMPWIDTHS}] :
        a.dest \in CellValues(a.sampwidth) /\ a.src \in CellValues(a.sampwidth)}

\* A window of n frames as process() holds it (1-D for one channel), every
\* cell v.
Window(n, nchannels, v) ==
    IF nchannels > 1
    THEN [shape |-> <<n, nchannels>>, data |-> [k \in 1..(n * nchannels) |-> v]]
    ELSE [shape |-> <<n>>, data |-> [k \in 1..n |-> v]]

SliderInit ==
    /\ ProcessIdle
    /\ BatchIdle
    /\ MainIdle
    /\ AuxIdle
    /\ sl_pc = "args"
    /\ sl_args \in SliderArgsSet
    /\ sl_fade_in = NoSlider
    /\ sl_fade_out = NoSlider
    /\ sl_mixed = NoArray

\* _make_cosinus_slider(pi, 2 * pi, mix_length, nchannels).
FadeInSlider(mix_length, nchannels) ==
    make_cosinus_slider(1, 2, mix_length, nchannels)

\* Mutant: the fade-out slider rising like the fade-in slider.
FadeOutSlider_Rising(mix_length, nchannels) ==
    make_cosinus_slider(1, 2, mix_length, nchannels)

\* _make_cosinus_slider(0, pi, mix_length, nchannels).
FadeOutSlider(mix_length, nchannels) ==
    make_cosinus_slider(0, 1, mix_length, nchannels)

\* The two slider calls of the mix.
MakeSliders ==
    /\ sl_pc = "args"
    /\ sl_fade_in' = FadeInSlider(sl_args.mix_length, sl_args.nchannels)
    /\ sl_fade_out' = FadeOutSlider(sl_args.mix_length, sl_args.nchannels)
    /\ sl_pc' = "sliders"
    /\ UNCHANGED <<sl_args, sl_mixed, pvars, bvars, avars>>

\* fade_in_src * fade_in_slider, multiply(..., fade_out_place) and
\* add(..., fade_out_place).
BlendRows ==
    /\ sl_pc = "sliders"
    /\ LET fade_in_src ==
               Window(sl_args.mix_length, sl_args.nchannels, sl_args.src)
           fade_out_place ==
               Window(sl_args.mix_length, sl_args.nchannels, sl_args.dest)
           fade_in_clipboard == Multiply(fade_in_src, sl_fade_in)
           faded_out == MultiplyInto(fade_out_place, sl_fade_out)
       IN  IF \/ BroadcastShape(fade_in_src.shape, sl_fade_in.shape) = ErrShape
              \/ ~UfuncOutOK(fade_out_place, sl_fade_out)
           THEN sl_pc' = "raised" /\ sl_mixed' = fade_out_place
           ELSE IF ~UfuncOutOK(faded_out, fade_in_clipboard)
           THEN sl_pc' = "raised" /\ sl_mixed' = faded_out
           ELSE sl_pc' = "blended"
                /\ sl_mixed' = AddInto(faded_out, fade_in_clipboard)
    /\ UNCHANGED <<sl_args, sl_fade_in, sl_fade_out, pvars, bvars, avars>>

SliderNext ==
    \/ MakeSliders
    \/ BlendRows

SliderSpec == SliderInit /\ [][SliderNext]_vars

----------------------------------------------------------------------------
(* process() called for one file after another with the same options. *)

\* The files of the explored batches: parameters and frame contents.
BatchFiles ==
    [wp : [nchannels : {1, 2}, sampwidth : {2}, framerate : {2},
           nframes : {2, 5}],
     seed : {0, 1}]

\* The option values of the explored batches, in half seconds.
BatchOpts ==
    [cf_source : {0}, cf_length : {1}, cf_cut : {0, 1}, cf_extra : {0, 1},
     wave_fade_in : {1, 3}, den : {2}]

BatchInit ==
    /\ BatchIdle
    /\ MainIdle
    /\ SliderIdle
    /\ AuxIdle
    /\ pc = "start"
    /\ opts \in BatchOpts
    /\ \E f \in BatchFiles :
           /\ in_params = f.wp
           /\ src_frames_str = ReadFrames(f.seed, f.wp)
    /\ wave_params = in_params
    /\ main_wave = NoArray
    /\ side_results = <<>>
    /\ plan = NoPlan
    /\ error = "none"
    /\ result = NoResult
    /\ windows = NoWindows

\* What a completed call was given and how it ended.
CallRecord ==
    [src_frames_str |-> src_frames_str, wave_params |-> in_params,
     pc |-> pc, error |-> error, result |-> result]

\* Mutant: the next call starts from the WaveParams the previous call ended
\* with.
Invoke_KeepsParams ==
    /\ pc \in {"returned", "raised"}
    /\ file_index < MaxFiles - 1
    /\ file_index' = file_index + 1
    /\ calls' = Append(calls, CallRecord)
    /\ \E f \in BatchFiles :
           /\ in_params' = f.wp
           /\ src_frames_str' = ReadFrames(f.seed, f.wp)
    /\ wave_params' = wave_params
    /\ main_wave' = NoArray
    /\ side_results' = <<>>
    /\ plan' = NoPlan
    /\ error' = "none"
    /\ result' = NoResult
    /\ windows' = NoWindows
    /\ pc' = "start"
    /\ UNCHANGED <<opts, svars, avars, mvars>>

\* The next call of process(), after the previous one returned or raised:
\* new arguments, the same options, and every local created anew.
Invoke ==
    /\ pc \in {"returned", "raised"}
    /\ file_index < MaxFiles - 1
    /\ file_index' = file_index + 1
    /\ calls' = Append(calls, CallRecord)
    /\ \E f \in BatchFiles :
           /\ in_params' = f.wp
           /\ src_frames_str' = ReadFrames(f.seed, f.wp)
    /\ wave_params' = in_params'
    /\ main_wave' = NoArray
    /\ side_results' = <<>>
    /\ plan' = NoPlan
    /\ error' = "none"
    /\ result' = NoResult
    /\ windows' = NoWindows
    /\ pc' = "start"
    /\ UNCHANGED <<opts, svars, avars, mvars>>

BatchNext ==
    \/ Next
    \/ Invoke

BatchSpec == BatchInit /\ [][BatchNext]_vars

-----------------------------------------------------------------------------
(* main(): the files of the command line, one after the other: read, process,
   write, append the chunk; the first exception ends the run. *)

\* The explored input files (two channels, 16 bits, 2 frames per second, 2 or
\* 5 frames), and a name with no readable wave file behind it.
MainFiles ==
    {[exists |-> TRUE,
      wp |-> [nchannels |-> 2, sampwidth |-> 2, framerate |-> 2,
              nframes |-> n],
      frames |-> ReadFrames(0, [nchannels |-> 2, sampwidth |-> 2,
                                framerate |-> 2, nframes |-> n]),
      tail |-> <<>>] : n \in {2, 5}}
    \cup {NoFile}

\* The option values of the explored runs, in half seconds: the file of 2
\* frames is too short when a frame is cut.
MainOpts ==
    [cf_source : {0}, cf_length : {1}, cf_cut : {0, 1}, cf_extra : {0},
     wave_fade_in : {1}, den : {2}]

\* The name of the k-th file of the command line, and the name its result is
\* written to: the same with opts.overwrite, base + filename_suffix + ext
\* otherwise (parse_cmdline refuses an empty suffix).
InName(k) == [base |-> file_names[k], suffix |-> FALSE]

OutName(k) == [base |-> file_names[k], suffix |-> ~overwrite]

\* An entry of the log of what main() did: the operation and the file name.
IO(op, nm) == [op |-> op, base |-> nm.base, suffix |-> nm.suffix]

\* main() at the top of its loop: at least one file name, all different, no
\* process() call made yet.
MainInit ==
    /\ SliderIdle
    /\ AuxIdle
    /\ BatchIdle
    /\ pc = "idle"
    /\ src_frames_str = <<>>
    /\ in_params = NoResult.wave_params
    /\ wave_params = NoResult.wave_params
    /\ opts \in MainOpts
    /\ main_wave = NoArray
    /\ side_results = <<>>
    /\ plan = NoPlan
    /\ error = "none"
    /\ result = NoResult
    /\ windows = NoWindows
    /\ main_pc = "loop"
    /\ \E n \in 1..MaxFiles :
           /\ file_names = [k \in 1..n |-> k]
           /\ \E given \in [1..n -> MainFiles] :
                  disk = [nm \in Names |->
                            IF nm.base <= n /\ ~nm.suffix
                            THEN given[nm.base] ELSE NoFile]
    /\ overwrite \in BOOLEAN
    /\ io_log = <<>>
    /\ exit_status = -1

\* The except clause: the error logged, sys.exit(1).
Exit1(events) ==
    /\ io_log' = io_log \o events
                     \o <<IO("log_error", InName(file_index + 1))>>
    /\ exit_status' = 1
    /\ main_pc' = "exited"

\* The first with-block of the loop: wave.open(name, 'rb'), getparams,
\* readframes(nframes), close; then process() is called with what was read.
\* wave.open raises when there is no readable wave file of that name.
OpenAndRead ==
    /\ main_pc = "loop"
    /\ file_index < Len(file_names)
    /\ LET name == InName(file_index + 1)
       IN  IF disk[name].exists
           THEN /\ io_log' = io_log \o <<IO("open_rb", name),
                                         IO("readframes", name),
                                         IO("close_rb", name)>>
                /\ in_params' = disk[name].wp
                /\ wave_params' = disk[name].wp
                /\ src_frames_str' = disk[name].frames
                /\ pc' = "start"
                /\ main_pc' = "process"
                /\ UNCHANGED exit_status
           ELSE /\ Exit1(<<IO("open_rb_failed", name)>>)
                /\ UNCHANGED <<in_params, wave_params, src_frames_str, pc>>
    /\ main_wave' = NoArray
    /\ side_results' = <<>>
    /\ plan' = NoPlan
    /\ error' = "none"
    /\ result' = NoResult
    /\ windows' = NoWindows
    /\ UNCHANGED <<opts, file_index, calls, file_names, overwrite, disk,
                   svars, avars>>

\* Mutant: the chunk appended before the frames are written, which empties
\* the file again.
AppendChunk_Early ==
    /\ main_pc = "process"
    /\ pc = "returned"
    /\ LET name == OutName(file_index + 1)
       IN  /\ io_log' = io_log \o <<IO("open_ab", name),
                                    IO("write_chunk", name),
                                    IO("close_ab", name),
                                    IO("open_wb", name),
                                    IO("writeframes", name),
                                    IO("close_wb", name)>>
           /\ disk' = [disk EXCEPT ![name] =
                          [exists |-> TRUE, wp |-> result.wave_params,
                           frames |-> result.result_frames, tail |-> <<>>]]
    /\ calls' = Append(calls, CallRecord)
    /\ file_index' = file_index + 1
    /\ main_pc' = "loop"
    /\ UNCHANGED <<pvars, file_names, overwrite, exit_status, svars, avars>>

\* The second with-block: wave.open(name, 'wb') (which empties the file),
\* setparams, writeframes, close.
WriteOutput ==
    /\ main_pc = "process"
    /\ pc = "returned"
    /\ LET name == OutName(file_index + 1)
       IN  /\ io_log' = io_log \o <<IO("open_wb", name),
                                    IO("writeframes", name),
                                    IO("close_wb", name)>>
           /\ disk' = [disk EXCEPT ![name] =
                          [exists |-> TRUE, wp |-> result.wave_params,
                           frames |-> result.result_frames, tail |-> <<>>]]
    /\ main_pc' = "written"
    /\ UNCHANGED <<pvars, file_index, calls, file_names, overwrite,
                   exit_status, svars, avars>>

\* The third with-block: open(name, 'ab'), write(to_append_str), close; the
\* file is done and the loop goes on.
AppendChunk ==
    /\ main_pc = "written"
    /\ LET name == OutName(file_index + 1)
       IN  /\ io_log' = io_log \o <<IO("open_ab", name),
                                    IO("write_chunk", name),
                                    IO("close_ab", name)>>
           /\ disk' = [disk EXCEPT ![name].tail =
                          Append(@, result.to_append_str)]
    /\ calls' = Append(calls, CallRecord)
    /\ file_index' = file_index + 1
    /\ main_pc' = "loop"
    /\ UNCHANGED <<pvars, file_names, overwrite, exit_status, svars, avars>>

\* Mutant: after an exception of process() the loop goes on with the next
\* file.
Fail_GoesOn ==
    /\ main_pc = "process"
    /\ pc = "raised"
    /\ io_log' = io_log \o <<IO("log_error", InName(file_index + 1))>>
    /\ calls' = Append(calls, CallRecord)
    /\ file_index' = file_index + 1
    /\ main_pc' = "loop"
    /\ UNCHANGED <<pvars, file_names, overwrite, disk, exit_status, svars,
                   avars>>

\* process() raised: the except clause.
Fail ==
    /\ main_pc = "process"
    /\ pc = "raised"
    /\ Exit1(<<>>)
    /\ UNCHANGED <<pvars, file_index, calls, file_names, overwrite, disk,
                   svars, avars>>

\* The else clause of the try statement, after the last file: the success
\* message ('All files ...' when the last index i is not 0).
Finish ==
    /\ main_pc = "loop"
    /\ file_index = Len(file_names)
    /\ io_log' = Append(io_log,
                        [op |-> IF Len(file_names) - 1 # 0
                                THEN "log_all_files_processed"
                                ELSE "log_file_processed",
                         base |-> 0, suffix |-> FALSE])
    /\ exit_status' = 0
    /\ main_pc' = "finished"
    /\ UNCHANGED <<pvars, file_index, calls, file_names, overwrite, disk,
                   svars, avars>>

MainNext ==
    \/ OpenAndRead
    \/ Decode
    \/ Plan
    \/ Mix
    \/ ResizeAndExtra
    \/ WaveFadeIn
    \/ Finalize
    \/ WriteOutput
    \/ AppendChunk
    \/ Fail
    \/ Finish

MainSpec == MainInit /\ [][MainNext]_vars

----------------------------------------------------------------------------
(* auxmethods.py: one call of an aux()-wrapped primary method on an instance
   whose class has an MRO of MaxClasses classes, class 1 the most specialized.
   The methods are those of one basename; a method body either returns at
   once or calls its call-next method once, as the methods of the tests do. *)

SUFFIXES == {"primary", "before", "after", "around"}

\* The classes and the methods each defines; some class defines the primary
\* method, so that the wrapper exists.
AuxDefsSet ==
    {d \in [1..MaxClasses -> [SUFFIXES -> BOOLEAN]] :
        \E c \in 1..MaxClasses : d[c]["primary"]}

\* What a method body does: "plain" returns its own value at once, "chains"
\* calls its call-next method and, for an around method, returns what that
\* returned; an around method that "swallows" calls its call-next method and
\* returns its own value.
Modes(meth) ==
    IF meth = "around" THEN {"plain", "chains", "swallows"}
    ELSE {"plain", "chains"}

\* Mutant: the least specialized class that defines the method.
Lookup_Last(meth, k) ==
    LET found == {c \in (k + 1)..MaxClasses : ax_defs[c][meth]}
    IN  IF found = {} THEN 0
        ELSE CHOOSE c \in found : \A d \in found : c >= d

\* getattr(obj, basename + suffix, None) for obj = self (k = 0) or obj =
\* super(cls, self) with cls at place k of the MRO: the place of the first
\* class after k that defines the method, 0 for None.
Lookup(meth, k) ==
    LET found == {c \in (k + 1)..MaxClasses : ax_defs[c][meth]}
    IN  IF found = {} THEN 0
        ELSE CHOOSE c \in found : \A d \in found : c <= d

\* A stack frame: a run of _next_around, of a method body, or of a generated
\* call-next method of a primary, before or after method.
Frame(kind, meth, cls, step, via) ==
    [kind |-> kind, meth |-> meth, cls |-> cls, step |-> step, via |-> via,
     mode |-> "", pri |-> None]

\* What the trace records: a method entered ("enter", via "auto" when
\* _next_around called it and "next" when a call-next method did), its
\* call-next method called ("next") and returned ("back", with the value),
\* the method left ("exit", with the value).
Event(ev, f, val) ==
    [ev |-> ev, meth |-> f.meth, cls |-> f.cls, via |-> f.via, val |-> val]

Top == ax_stack[Len(ax_stack)]

Below == SubSeq(ax_stack, 1, Len(ax_stack) - 1)

\* The innermost frame returns v to its caller; the outermost one is the
\* wrapper's call of _next_around.
ReturnWith(v) ==
    /\ ax_stack' = Below
    /\ ax_ret' = v
    /\ IF Len(ax_stack) = 1
       THEN ax_pc' = "done" /\ ax_result' = v
       ELSE UNCHANGED <<ax_pc, ax_result>>

\* The innermost frame goes on as `f` and calls `child`.
CallFrom(f, child) ==
    /\ ax_stack' = Append(Append(Below, f), child)
    /\ UNCHANGED <<ax_pc, ax_ret, ax_result>>

\* The innermost frame goes on as `f`.
GoOn(f) ==
    /\ ax_stack' = Append(Below, f)
    /\ UNCHANGED <<ax_pc, ax_ret, ax_result>>

Running(kind, steps) ==
    /\ ax_pc = "running"
    /\ ax_stack # <<>>
    /\ Top.kind = kind
    /\ Top.step \in steps

AuxInit ==
    /\ ProcessIdle
    /\ BatchIdle
    /\ MainIdle
    /\ SliderIdle
    /\ ax_pc = "ready"
    /\ ax_defs \in AuxDefsSet
    /\ ax_stack = <<>>
    /\ ax_trace = <<>>
    /\ ax_ret = None
    /\ ax_result = None

\* wrapper(self, *args): _next_around(self, self, basename, *args).
wrapper ==
    /\ ax_pc = "ready"
    /\ ax_pc' = "running"
    /\ ax_stack' = <<Frame("next_around", "around", 0, "around", "auto")>>
    /\ UNCHANGED <<ax_defs, ax_trace, ax_ret, ax_result, pvars, bvars, svars>>

\* Mutant: after the around method returned, _next_around goes on to the
\* before, primary and after methods.
next_around_RunsTail ==
    /\ Running("next_around", {"around", "return_around"})
    /\ IF Top.step = "return_around"
       THEN GoOn([Top EXCEPT !.step = "before"])
       ELSE LET c == Lookup("around", Top.cls)
            IN  IF c # 0
                THEN CallFrom([Top EXCEPT !.step = "return_around"],
                              Frame("method", "around", c, "enter", Top.via))
                ELSE GoOn([Top EXCEPT !.step = "before"])
    /\ UNCHANGED <<ax_defs, ax_trace, pvars, bvars, svars>>

\* _next_around: "try to get and call next `around` aux method", and the
\* return of its result.
next_around ==
    /\ Running("next_around", {"around", "return_around"})
    /\ IF Top.step = "return_around"
       THEN ReturnWith(ax_ret)
       ELSE LET c == Lookup("around", Top.cls)
            IN  IF c # 0
                THEN CallFrom([Top EXCEPT !.step = "return_around"],
                              Frame("method", "around", c, "enter", Top.via))
                ELSE GoOn([Top EXCEPT !.step = "before"])
    /\ UNCHANGED <<ax_defs, ax_trace, pvars, bvars, svars>>

\* _next_around, "if there is no more `around` methods": the before method
\* of self, if any.
next_around_before ==
    /\ Running("next_around", {"before"})
    /\ LET c == Lookup("before", 0)
       IN  IF c # 0
           THEN CallFrom([Top EXCEPT !.step = "primary"],
                         Frame("method", "before", c, "enter", "auto"))
           ELSE GoOn([Top EXCEPT !.step = "primary"])
    /\ UNCHANGED <<ax_defs, ax_trace, pvars, bvars, svars>>

\* An exception leaves every frame: no method body of the model catches it.
AuxRaise(exc) ==
    /\ ax_pc' = "raised"
    /\ ax_stack' = <<>>
    /\ ax_result' = Val(exc, 0)
    /\ UNCHANGED ax_ret

\* _next_around: the primary method of self; getattr without a default
\* raises AttributeError when no class of the MRO defines it.
next_around_primary ==
    /\ Running("next_around", {"primary"})
    /\ IF Lookup("primary", 0) = 0
       THEN AuxRaise("AttributeError")
       ELSE CallFrom([Top EXCEPT !.step = "after"],
                     Frame("method", "primary", Lookup("primary", 0), "enter",
                           "auto"))
    /\ UNCHANGED <<ax_defs, ax_trace, pvars, bvars, svars>>

\* _next_around: pri_result kept, then the after method of self, if any.
next_around_after ==
    /\ Running("next_around", {"after"})
    /\ LET c == Lookup("after", 0)
           f == [Top EXCEPT !.step = "return_primary", !.pri = ax_ret]
       IN  IF c # 0
           THEN CallFrom(f, Frame("method", "after", c, "enter", "auto"))
           ELSE GoOn(f)
    /\ UNCHANGED <<ax_defs, ax_trace, pvars, bvars, svars>>

\* _next_around: return pri_result.
next_around_result ==
    /\ Running("next_around", {"return_primary"})
    /\ ReturnWith(Top.pri)
    /\ UNCHANGED <<ax_defs, ax_trace, pvars, bvars, svars>>

\* A method body starts: it returns at once, or calls its call-next method
\* (for an around method: _next_around(super(cls, self), self, ...)).
method_enter ==
    /\ Running("method", {"enter"})
    /\ \E mode \in Modes(Top.meth) :
           IF mode = "plain"
           THEN /\ ax_trace' = ax_trace \o
                        <<Event("enter", Top, None),
                          Event("exit", Top, Val(Top.meth, Top.cls))>>
                /\ ReturnWith(Val(Top.meth, Top.cls))
           ELSE /\ ax_trace' = ax_trace \o
                        <<Event("enter", Top, None), Event("next", Top, None)>>
                /\ CallFrom([Top EXCEPT !.step = "resume", !.mode = mode],
                            IF Top.meth = "around"
                            THEN Frame("next_around", "around", Top.cls,
                                       "around", "next")
                            ELSE Frame("call_next", Top.meth, Top.cls,
                                       "lookup", "next"))
    /\ UNCHANGED <<ax_defs, pvars, bvars, svars>>

\* A method body goes on after its call-next method returned.
method_resume ==
    /\ Running("method", {"resume"})
    /\ LET v == IF Top.meth = "around" /\ Top.mode = "chains"
                THEN ax_ret ELSE Val(Top.meth, Top.cls)
       IN  /\ ax_trace' = ax_trace \o
                   <<Event("back", Top, ax_ret), Event("exit", Top, v)>>
           /\ ReturnWith(v)
    /\ UNCHANGED <<ax_defs, pvars, bvars, svars>>

\* Mutant: the search for the next method starts one class too far down the
\* MRO.
call_next_SkipsClass ==
    /\ Running("call_next", {"lookup", "return"})
    /\ IF Top.step = "return"
       THEN ReturnWith(ax_ret)
       ELSE LET c == Lookup(Top.meth, Top.cls + 1)
            IN  IF c # 0
                THEN CallFrom([Top EXCEPT !.step = "return"],
                              Frame("method", Top.meth, c, "enter", "next"))
                ELSE ReturnWith(None)
    /\ UNCHANGED <<ax_defs, ax_trace, pvars, bvars, svars>>

\* call_next of a primary, before or after method: the method of the next
\* class of the MRO that has one is called and its result returned; None
\* otherwise.
call_next ==
    /\ Running("call_next", {"lookup", "return"})
    /\ IF Top.step = "return"
       THEN ReturnWith(ax_ret)
       ELSE LET c == Lookup(Top.meth, Top.cls)
            IN  IF c # 0
                THEN CallFrom([Top EXCEPT !.step = "return"],
                              Frame("method", Top.meth, c, "enter", "next"))
                ELSE ReturnWith(None)
    /\ UNCHANGED <<ax_defs, ax_trace, pvars, bvars, svars>>

AuxNext ==
    \/ wrapper
    \/ next_around
    \/ next_around_before
    \/ next_around_primary
    \/ next_around_after
    \/ next_around_result
    \/ method_enter
    \/ method_resume
    \/ call_next

AuxSpec == AuxInit /\ [][AuxNext]_vars

\* The classes and their methods when a method is called by its own name:
\* no class need define the primary method.
DirectDefsSet ==
    {d \in [1..MaxClasses -> [SUFFIXES -> BOOLEAN]] :
        \E c \in 1..MaxClasses : \E s \in SUFFIXES : d[c][s]}

DirectInit ==
    /\ ProcessIdle
    /\ BatchIdle
    /\ MainIdle
    /\ SliderIdle
    /\ ax_pc = "ready"
    /\ ax_defs \in DirectDefsSet
    /\ ax_stack = <<>>
    /\ ax_trace = <<>>
    /\ ax_ret = None
    /\ ax_result = None

\* obj.<basename>_<suffix>(arg), as the tests call a.foo_primary('spam'),
\* a.foo_before('spam'), a.foo_after('spam') and a.foo_around('spam'): the
\* method of the most specialized class that has one.
direct_call ==
    /\ ax_pc = "ready"
    /\ \E s \in SUFFIXES :
           /\ Lookup(s, 0) # 0
           /\ ax_stack' = <<Frame("method", s, Lookup(s, 0), "enter",
                                  "direct")>>
    /\ ax_pc' = "running"
    /\ UNCHANGED <<ax_defs, ax_trace, ax_ret, ax_result, pvars, bvars, svars>>

DirectNext ==
    \/ direct_call
    \/ next_around
    \/ next_around_before
    \/ next_around_primary
    \/ next_around_after
    \/ next_around_result
    \/ method_enter
    \/ method_resume
    \/ call_next

DirectSpec == DirectInit /\ [][DirectNext]_vars

----------------------------------------------------------------------------
(* Vocabulary of the properties. *)

PlanErrors == {"too_short", "extra_too_wide"}

\* The plan has been computed.
Planned == pc \notin {"start", "decoded"}

\* The plan has been computed and both checks passed.
PlanOK == Planned /\ error \notin PlanErrors

\* Mix has run (to its end or to an exception).
MixRan == pc \in {"mixed", "resized", "fadedin", "returned"}
              \/ (pc = "raised" /\ error \notin PlanErrors)

\* The extra-copy step has run.
ExtraRan == pc \in {"resized", "fadedin", "returned"}
                \/ (pc = "raised" /\ error \notin PlanErrors
                       /\ side_results # <<>>)

\* The exception, if any, came out of Mix.
RaisedInMix == pc = "raised" /\ error \notin PlanErrors /\ side_results = <<>>

\* fade_in_len of do_wave_fade_in.
FadeInLen == Frames(opts.wave_fade_in, opts.den, in_params.framerate)

\* Frame r of the frames read from the file, one sample per channel.
InputFrame(r) ==
    LET nch == in_params.nchannels
    IN  SubSeq(fromstring(src_frames_str, in_params.sampwidth).data,
               r * nch + 1, (r + 1) * nch)

\* Frame r of the frames process() returned.
OutputFrame(r) ==
    LET nch == result.wave_params.nchannels
    IN  SubSeq(fromstring(result.result_frames,
                          result.wave_params.sampwidth).data,
               r * nch + 1, (r + 1) * nch)

\* Row r of the working array.
BufferFrame(r) ==
    SubSeq(main_wave.data, r * RowLen(main_wave) + 1,
           (r + 1) * RowLen(main_wave))

\* 0-based offset of the field `key` in the bytes a template formats to.
RECURSIVE FieldOffset(_, _)
FieldOffset(template, key) ==
    IF template = <<>> THEN 0
    ELSE IF Head(template).key = key THEN 0
    ELSE (IF Head(template).key = "" THEN Len(Head(template).lit) ELSE 4)
             + FieldOffset(Tail(template), key)

\* The 4-byte field of chunk c at 0-based offset off.
FieldAt(c, off) == SubSeq(c, off + 1, off + 4)

----------------------------------------------------------------------------
(* C1..C10 *)

\* C1 (as claimed): whenever the two planner checks pass, process() returns
\* normally, and what it returns has destStop + extraLength frames and
\* newFrameCount * channelCount * sampleWidth bytes.
C1_ProcessReturns ==
    /\ pc = "raised" => error \in PlanErrors
    /\ pc = "returned" =>
          /\ result.wave_params.nframes = plan.dest_stop + plan.extra_length
          /\ Len(result.result_frames) =
                 result.wave_params.nframes * in_params.nchannels
                     * in_params.sampwidth

\* C2: whenever planning succeeds, 0 <= srcStart <= srcStop <= destStart <=
\* destStop <= frameCount, srcStop = srcStart + mixLength and destStart =
\* destStop - mixLength: the two mix windows lie in the buffer and are disjoint.
C2_PlanWindows ==
    PlanOK =>
        /\ 0 <= plan.src_start
        /\ plan.src_start <= plan.src_stop
        /\ plan.src_stop <= plan.dest_start
        /\ plan.dest_start <= plan.dest_stop
        /\ plan.dest_stop <= in_params.nframes
        /\ plan.src_stop = plan.src_start + plan.mix_length
        /\ plan.dest_start = plan.dest_stop - plan.mix_length

C2_Witness ==
    /\ pc = "planned"
    /\ plan.src_start > 0
    /\ plan.mix_length > 0
    /\ plan.cut_length > 0

\* C3: whenever planning succeeds, srcStop + extraLength <= destStop; the
\* extra-copy runs only on such a plan, its source window [srcStop, srcStop +
\* extraLength) lies inside the resized buffer and below its destination
\* window [destStop, newFrameCount).
C3_ExtraWindow ==
    /\ PlanOK => plan.src_stop + plan.extra_length <= plan.dest_stop
    /\ ExtraRan =>
          /\ PlanError(plan) = "none"
          /\ NRows(main_wave) = plan.dest_stop + plan.extra_length
          /\ plan.src_stop + plan.extra_length <= NRows(main_wave)
          /\ \A i \in plan.src_stop..(plan.src_stop + plan.extra_length - 1) :
                 i \notin plan.dest_stop..(NRows(main_wave) - 1)

C3_Witness ==
    /\ pc = "resized"
    /\ plan.extra_length > 0
    /\ plan.src_stop + plan.extra_length = plan.dest_stop

\* C4: planning fails as 'too short' exactly when srcStop > destStart, as
\* 'extra too wide' exactly when srcStop <= destStart and srcStop +
\* extraLength > destStop, and succeeds otherwise, on the unclamped values
\* (destStart may be negative); the 8.0 / 2.0 / 0.1 s example at 1000 Hz and
\* 10000 frames is 'too short'.
C4_PlanFailures ==
    LET mix == TruncDiv(opts.cf_length * in_params.framerate, opts.den)
        src == TruncDiv(opts.cf_source * in_params.framerate, opts.den)
        cut == TruncDiv(opts.cf_cut * in_params.framerate, opts.den)
        ext == TruncDiv(opts.cf_extra * in_params.framerate, opts.den)
        short == src + mix > in_params.nframes - cut - mix
        wide == ~short /\ src + mix + ext > in_params.nframes - cut
    IN  /\ Planned =>
              /\ plan.src_stop = src + mix
              /\ plan.dest_stop = in_params.nframes - cut
              /\ plan.dest_start = in_params.nframes - cut - mix
              /\ (error = "too_short") <=> short
              /\ (error = "extra_too_wide") <=> wide
              /\ PlanOK <=> (~short /\ ~wide)
        /\ PlanError(PlanOf([framerate |-> 1000, nframes |-> 10000],
                            [cf_source |-> 80, cf_length |-> 20, cf_cut |-> 1,
                             cf_extra |-> 0, den |-> 10])) = "too_short"

C4_Witness ==
    /\ pc = "raised"
    /\ error = "too_short"
    /\ plan.dest_start < 0
    /\ plan.src_stop + plan.extra_length > plan.dest_stop

\* C5: when planning fails, the array still holds exactly the decoded input,
\* the input bytes are the ones that were read, no loop offset has been
\* recorded and nothing has been returned.
C5_FailureLeavesInput ==
    (pc = "raised" /\ error \in PlanErrors) =>
        /\ main_wave = DecodeOf(src_frames_str, in_params)
        /\ tostring(main_wave, in_params.sampwidth) = src_frames_str
        /\ \E seed \in {0, 1} : src_frames_str = ReadFrames(seed, in_params)
        /\ side_results = <<>>
        /\ result = NoResult

C5_Witness ==
    /\ pc = "raised"
    /\ error \in PlanErrors
    /\ Len(main_wave.data) > 0

\* C6: the chunk process() returns carries srcStop in its loop_start field and
\* destStop in its loop_stop field, each a little-endian unsigned 32-bit
\* integer, and loop_start <= loop_stop.
C6_ChunkOffsets ==
    pc = "returned" =>
        LET c == result.to_append_str
            loop_start ==
                UnpackUint32LE(FieldAt(c, FieldOffset(WAVE_SMPL_CHUNK, "loop_start")))
            loop_stop ==
                UnpackUint32LE(FieldAt(c, FieldOffset(WAVE_SMPL_CHUNK, "loop_stop")))
        IN  /\ loop_start = plan.src_stop
            /\ loop_stop = plan.dest_stop
            /\ loop_start <= loop_stop

C6_Witness ==
    /\ pc = "returned"
    /\ plan.src_stop > 0
    /\ plan.src_stop < plan.dest_stop

\* C7 (as claimed): the returned chunk is exactly 36 bytes long.
C7_ChunkIs36Bytes ==
    pc = "returned" => Len(result.to_append_str) = 36

\* C7 (amended): the returned chunk is exactly 68 bytes long: the 8-byte chunk
\* header and the 60 bytes of data its size field announces.
C7_ChunkIs68Bytes ==
    pc = "returned" =>
        /\ Len(result.to_append_str) = 68
        /\ Len(result.to_append_str) = 8 + result.to_append_str[5]

C7_Witness ==
    /\ pc = "returned"
    /\ Len(result.to_append_str) > 36

\* C8: every returned chunk has the length of the chunk of the all-zero plan
\* and differs from it at most in the bytes 52..55 (loop_start) and 56..59
\* (loop_stop): the fields sit at the same offsets in every chunk, loop_stop
\* right after loop_start, and all other bytes are constant.
C8_ChunkTemplate ==
    pc = "returned" =>
        LET c == result.to_append_str
            zero == Format(WAVE_SMPL_CHUNK, LoopOffsets(NoPlan))
        IN  /\ Len(c) = Len(zero)
            /\ \A i \in 1..Len(c) : i \notin 53..60 => c[i] = zero[i]
            /\ FieldAt(c, 52) = PackUint32LE(plan.src_stop)
            /\ FieldAt(c, 56) = PackUint32LE(plan.dest_stop)

C8_Witness ==
    /\ pc = "returned"
    /\ result.to_append_str # Format(WAVE_SMPL_CHUNK, LoopOffsets(NoPlan))
    /\ plan.src_stop # plan.dest_stop

\* C9 (as claimed): once the mix step has run, for one channel as for two,
\* every frame destStart + i of the window holds old_dest[i] * fadeOut[i] +
\* old_src[i] * fadeIn[i] on each channel (up to the truncation of the value
\* to the integer cell it is stored in).
C9_MixBlend ==
    (pc = "mixed" \/ RaisedInMix) =>
        LET old == DecodeOf(src_frames_str, in_params)
            nch == in_params.nchannels
        IN  \A i \in 0..(plan.mix_length - 1) : \A ch \in 0..(nch - 1) :
                LET fade_in == CosFP(plan.mix_length + i, plan.mix_length) + WScale
                    fade_out == CosFP(i, plan.mix_length) + WScale
                    d == (plan.dest_start + i) * nch + ch + 1
                    s == (plan.src_start + i) * nch + ch + 1
                IN  Abs(main_wave.data[d] * WDen
                          - (old.data[d] * fade_out + old.data[s] * fade_in))
                        < 2 * WDen

\* C10: the mix step changes only frames of [destStart, destStop): every cell
\* of a frame outside that window, the source window included, holds after
\* the mix what the decoded input held, and the shape is unchanged.
C10_MixFrame ==
    (pc = "mixed" \/ RaisedInMix) =>
        LET old == DecodeOf(src_frames_str, in_params)
            rowlen == RowLen(old)
        IN  /\ main_wave.shape = old.shape
            /\ \A k \in 1..Len(old.data) :
                   (k - 1) \div rowlen \notin plan.dest_start..(plan.dest_stop - 1)
                       => main_wave.data[k] = old.data[k]

C10_Witness ==
    /\ pc = "mixed"
    /\ plan.src_start > 0
    /\ plan.dest_stop < in_params.nframes
    /\ main_wave # DecodeOf(src_frames_str, in_params)

----------------------------------------------------------------------------
(* C11..C20 *)

\* C11: the resize and extra-copy step with extraLength > 0 leaves a buffer of
\* newFrameCount frames whose frames [0, destStop) are the post-mix frames and
\* whose frame destStop + k is the post-mix frame srcStop + k for every k in
\* [0, extraLength), whether the buffer shrinks or grows.
C11_ResizeAndExtraCopy ==
    [][(pc = "mixed" /\ pc' = "resized" /\ plan.extra_length > 0) =>
          LET nch == wave_params.nchannels
          IN  /\ main_wave'.shape = <<plan.dest_stop + plan.extra_length, nch>>
              /\ Len(main_wave'.data) = (plan.dest_stop + plan.extra_length) * nch
              /\ \A r \in 0..(plan.dest_stop - 1) : \A c \in 1..nch :
                     main_wave'.data[r * nch + c] = main_wave.data[r * nch + c]
              /\ \A k \in 0..(plan.extra_length - 1) : \A c \in 1..nch :
                     main_wave'.data[(plan.dest_stop + k) * nch + c]
                         = main_wave.data[(plan.src_stop + k) * nch + c]]_vars

\* The buffer grew: more extra frames than cut frames.
C11_Witness ==
    /\ pc = "resized"
    /\ plan.extra_length > plan.cut_length
    /\ plan.cut_length > 0
    /\ NRows(main_wave) > in_params.nframes

\* C12 as stated: with extraLength = 0 and a successful plan, the output has
\* destStop frames and every output frame outside the mix destination window
\* [destStart, destStop) equals the input frame of the same index.
C12_OutsideMixUnchanged ==
    (pc = "returned" /\ plan.extra_length = 0) =>
        /\ result.wave_params.nframes = plan.dest_stop
        /\ \A r \in 0..(plan.dest_stop - 1) :
               r < plan.dest_start => OutputFrame(r) = InputFrame(r)

\* C12 amended: with extraLength = 0 and a successful plan, the buffer after
\* the resize step has destStop frames, its frames below destStart are the
\* input frames, and in the returned output every frame outside the mix
\* destination window and outside the start fade-in window [0, fade_in_len)
\* equals the input frame of the same index.
C12_OutsideMixAndFadeUnchanged ==
    /\ (pc = "resized" /\ plan.extra_length = 0) =>
           /\ NRows(main_wave) = plan.dest_stop
           /\ wave_params.nframes = plan.dest_stop
           /\ \A r \in 0..(plan.dest_start - 1) :
                  BufferFrame(r) = InputFrame(r)
    /\ (pc = "returned" /\ plan.extra_length = 0) =>
           /\ result.wave_params.nframes = plan.dest_stop
           /\ Len(result.result_frames) =
                  plan.dest_stop * in_params.nchannels * in_params.sampwidth
           /\ \A r \in 0..(plan.dest_stop - 1) :
                  (r < plan.dest_start /\ r >= FadeInLen) =>
                      OutputFrame(r) = InputFrame(r)

\* A returned output with a cut tail, no extra frames, and a frame between the
\* fade-in window and the mix destination window.
C12_Witness ==
    /\ pc = "returned"
    /\ plan.extra_length = 0
    /\ plan.cut_length > 0
    /\ FadeInLen < plan.dest_start
    /\ OutputFrame(FadeInLen) = InputFrame(FadeInLen)
    /\ OutputFrame(0) # InputFrame(0)

\* The weight of row i of the fadeIn slider of n rows, as a numerator over
\* WDen.
FadeInWeight(n, i) == make_cosinus_slider(1, 2, n, 1).data[i + 1]

\* C13: the start fade-in step multiplies every frame i of the buffer in
\* [0, lengthFrames), lengthFrames = trunc(waveFadeInSec * frameRate), by
\* fadeIn[i] on every channel (to within the truncation of the stored sample
\* and one unit of the fixed-point weight), and leaves every frame with index
\* >= lengthFrames unchanged.
C13_FadeInStep ==
    [][pc = "resized" =>
          LET nch == wave_params.nchannels
          IN  /\ main_wave'.shape = main_wave.shape
              /\ \A r \in 0..(NRows(main_wave) - 1) : \A c \in 1..nch :
                     LET old == main_wave.data[r * nch + c]
                         new == main_wave'.data[r * nch + c]
                     IN  IF r < FadeInLen
                         THEN Abs(new * WDen - old * FadeInWeight(FadeInLen, r))
                                  <= WDen + Abs(old)
                         ELSE new = old]_vars

\* The same for the fade-in steps that do not raise.
C13_FadeInStepCompleted ==
    [][(pc = "resized" /\ pc' = "fadedin") =>
          LET nch == wave_params.nchannels
          IN  /\ main_wave'.shape = main_wave.shape
              /\ FadeInLen <= NRows(main_wave)
              /\ \A r \in 0..(NRows(main_wave) - 1) : \A c \in 1..nch :
                     LET old == main_wave.data[r * nch + c]
                         new == main_wave'.data[r * nch + c]
                     IN  IF r < FadeInLen
                         THEN Abs(new * WDen - old * FadeInWeight(FadeInLen, r))
                                  <= WDen + Abs(old)
                         ELSE new = old]_vars

\* The column of weights of a slider, one per row.
Weights(slider) ==
    [i \in 1..NRows(slider) |-> slider.data[(i - 1) * RowLen(slider) + 1]]

\* Every row of a slider holds one weight in all its columns.
SameOnEveryChannel(slider) ==
    \A k \in 1..Len(slider.data) :
        slider.data[k] = Weights(slider)[((k - 1) \div RowLen(slider)) + 1]

NonDecreasing(w) == \A i \in 1..(Len(w) - 1) : w[i] <= w[i + 1]

NonIncreasing(w) == \A i \in 1..(Len(w) - 1) : w[i] >= w[i + 1]

\* C14 as stated: for every n >= 1 the fadeIn slider starts about 0 (nearer
\* to 0 than to 1), ends about 1 (nearer to 1 than to 0) and is non-decreasing,
\* and the fadeOut slider starts about 1, ends about 0 and is non-increasing.
C14_SliderEnds ==
    sl_pc # "args" =>
        LET fi == Weights(sl_fade_in)
            fo == Weights(sl_fade_out)
        IN  /\ 2 * fi[1] < WDen
            /\ 2 * fi[Len(fi)] > WDen
            /\ NonDecreasing(fi)
            /\ 2 * fo[1] > WDen
            /\ 2 * fo[Len(fo)] < WDen
            /\ NonIncreasing(fo)

\* C14 amended: for every n >= 1 both sliders have n rows of weights in
\* [0, 1], the same on every channel; fadeIn starts at exactly 0 and is
\* non-decreasing, fadeOut starts at exactly 1 and is non-increasing; the last
\* fadeIn weight is short of 1, and the last fadeOut weight above 0, by an
\* amount between 1 / n^2 and 2.5 / n^2 (to one unit of the fixed point).
C14_SliderShape ==
    sl_pc # "args" =>
        LET n == sl_args.mix_length
            fi == Weights(sl_fade_in)
            fo == Weights(sl_fade_out)
        IN  /\ Len(fi) = n /\ Len(fo) = n
            /\ SameOnEveryChannel(sl_fade_in)
            /\ SameOnEveryChannel(sl_fade_out)
            /\ \A i \in 1..n : fi[i] \in 0..WDen /\ fo[i] \in 0..WDen
            /\ fi[1] = 0
            /\ NonDecreasing(fi)
            /\ n * n * (WDen - fi[n]) >= WDen - n * n
            /\ 2 * n * n * (WDen - fi[n]) <= 5 * WDen + 2 * n * n
            /\ fo[1] = WDen
            /\ NonIncreasing(fo)
            /\ n * n * fo[n] >= WDen - n * n
            /\ 2 * n * n * fo[n] <= 5 * WDen + 2 * n * n

\* Sliders of 8 rows: the fadeIn slider has come to within 5 % of 1.
C14_Witness ==
    /\ sl_pc = "sliders"
    /\ sl_args.mix_length = 8
    /\ sl_args.nchannels = 2
    /\ 20 * Weights(sl_fade_in)[8] >= 19 * WDen
    /\ Weights(sl_fade_in)[8] < WDen
    /\ Weights(sl_fade_in)[5] = WScale

\* The blended cell of row i (1-based), first channel.
MixedAt(i) == sl_mixed.data[(i - 1) * RowLen(sl_mixed) + 1]

\* C15 as stated: the weights of every row sum to 1 and lie in [0, 1], each
\* blended sample lies between old_dest and old_src, and within the signed
\* range of the sample width.
C15_BlendBetween ==
    sl_pc = "blended" =>
        \A i \in 1..sl_args.mix_length :
            /\ Weights(sl_fade_in)[i] + Weights(sl_fade_out)[i] = WDen
            /\ Weights(sl_fade_in)[i] \in 0..WDen
            /\ Weights(sl_fade_out)[i] \in 0..WDen
            /\ MixedAt(i) >= Min(sl_args.dest, sl_args.src)
            /\ MixedAt(i) <= Max(sl_args.dest, sl_args.src)
            /\ MixedAt(i) >= IntMin(sl_args.sampwidth)
            /\ MixedAt(i) <= IntMax(sl_args.sampwidth)

\* C15 amended: the weights of every row sum to 1 and lie in [0, 1]; each
\* blended sample, stored truncated toward zero, lies in the interval spanned
\* by old_dest, old_src and 0, at most one unit outside the interval between
\* old_dest and old_src, all channels alike, and within the signed range of
\* the sample width.
C15_BlendWithinHull ==
    /\ sl_pc # "args" =>
           \A i \in 1..sl_args.mix_length :
               /\ Abs(Weights(sl_fade_in)[i] + Weights(sl_fade_out)[i] - WDen)
                      <= 1
               /\ Weights(sl_fade_in)[i] \in 0..WDen
               /\ Weights(sl_fade_out)[i] \in 0..WDen
    /\ sl_pc = "blended" =>
           /\ sl_mixed.shape = <<sl_args.mix_length, sl_args.nchannels>>
           /\ \A k \in 1..Len(sl_mixed.data) :
                  sl_mixed.data[k] = MixedAt(((k - 1) \div RowLen(sl_mixed)) + 1)
           /\ \A i \in 1..sl_args.mix_length :
                  /\ MixedAt(i) >= Min(Min(sl_args.dest, sl_args.src), 0)
                  /\ MixedAt(i) <= Max(Max(sl_args.dest, sl_args.src), 0)
                  /\ MixedAt(i) >= Min(sl_args.dest, sl_args.src) - 1
                  /\ MixedAt(i) <= Max(sl_args.dest, sl_args.src) + 1
                  /\ MixedAt(i) >= IntMin(sl_args.sampwidth)
                  /\ MixedAt(i) <= IntMax(sl_args.sampwidth)

\* A blend of the two 16-bit extremes over 4 rows, with a row strictly between
\* them.
C15_Witness ==
    /\ sl_pc = "blended"
    /\ sl_args.sampwidth = 2
    /\ sl_args.mix_length = 4
    /\ sl_args.dest = IntMin(2)
    /\ sl_args.src = IntMax(2)
    /\ MixedAt(1) = IntMin(2)
    /\ MixedAt(3) > IntMin(2) /\ MixedAt(3) < IntMax(2)

\* L is seconds * framerate truncated to a whole number, for seconds =
\* num / opts.den >= 0.
IsTruncated(L, num) ==
    /\ L * opts.den <= num * in_params.framerate
    /\ num * in_params.framerate < (L + 1) * opts.den

\* The worked example: 10000 frames at 1000 frames/s, cfSource = 1.0,
\* cfLength = 2.0, cfCut = 0.5, cfExtra = 1.0 (in half seconds).
ExamplePlan ==
    PlanOf([nchannels |-> 2, sampwidth |-> 2, framerate |-> 1000,
            nframes |-> 10000],
           [cf_source |-> 2, cf_length |-> 4, cf_cut |-> 1, cf_extra |-> 2,
            wave_fade_in |-> 0, den |-> 2])

\* C16: every plan length (mixLength, srcStart, cutLength, extraLength) is
\* seconds * frameRate truncated to a whole frame count, srcStop = srcStart +
\* mixLength, destStop = frameCount - cutLength, destStart = destStop -
\* mixLength, newFrameCount = destStop + extraLength; and the worked example
\* gives srcStart=1000, srcStop=3000, destStop=9500, destStart=7500,
\* extraLength=1000, newFrameCount=10500 with both checks passing.
C16_PlanLengths ==
    /\ Planned =>
           /\ IsTruncated(plan.mix_length, opts.cf_length)
           /\ IsTruncated(plan.src_start, opts.cf_source)
           /\ IsTruncated(plan.cut_length, opts.cf_cut)
           /\ plan.src_stop = plan.src_start + plan.mix_length
           /\ plan.dest_stop = in_params.nframes - plan.cut_length
           /\ plan.dest_start = plan.dest_stop - plan.mix_length
    /\ (Planned /\ error # "too_short") =>
           IsTruncated(plan.extra_length, opts.cf_extra)
    /\ PlanOK => plan.new_nframes = plan.dest_stop + plan.extra_length
    /\ ExtraRan => wave_params.nframes = plan.dest_stop + plan.extra_length
    /\ ExamplePlan.src_start = 1000
    /\ ExamplePlan.src_stop = 3000
    /\ ExamplePlan.dest_stop = 9500
    /\ ExamplePlan.dest_start = 7500
    /\ ExamplePlan.extra_length = 1000
    /\ ExamplePlan.new_nframes = 10500
    /\ PlanError(ExamplePlan) = "none"

\* A successful plan whose cut of half a second at 1 frame/s truncates to no
\* frame, beside lengths that are whole.
C16_Witness ==
    /\ pc = "planned"
    /\ error = "none"
    /\ (opts.cf_cut * in_params.framerate) % opts.den # 0
    /\ plan.cut_length = 0
    /\ plan.mix_length > 0
    /\ plan.extra_length > 0
    /\ plan.src_start > 0

\* The plan from the six inputs the claim names alone: frame rate, frame
\* count and the four crossfade times.
PlanFromSix(framerate, nframes, cf_source, cf_length, cf_cut, cf_extra, den) ==
    PlanOf([nchannels |-> 0, sampwidth |-> 0, framerate |-> framerate,
            nframes |-> nframes],
           [cf_source |-> cf_source, cf_length |-> cf_length,
            cf_cut |-> cf_cut, cf_extra |-> cf_extra, wave_fade_in |-> 0,
            den |-> den])

\* C17: the plan step yields plan values, or the failure, that depend on
\* nothing but (frame rate, frame count, cfSource, cfLength, cfCut, cfExtra),
\* changes no frame of the buffer and no other state, and the plan values
\* stay what they are from then on.
C17_PlanIsPure ==
    [][/\ pc = "decoded" =>
              LET six == PlanFromSix(in_params.framerate, in_params.nframes,
                                     opts.cf_source, opts.cf_length,
                                     opts.cf_cut, opts.cf_extra, opts.den)
              IN  /\ plan' = six
                  /\ (pc' = "raised") = (PlanError(six) # "none")
                  /\ pc' = "raised" => error' = PlanError(six)
                  /\ pc' # "raised" => (pc' = "planned" /\ error' = "none")
                  /\ main_wave' = main_wave
                  /\ main_wave' = DecodeOf(src_frames_str, in_params)
                  /\ <<src_frames_str, in_params, opts, side_results,
                       wave_params, result, windows>>'
                         = <<src_frames_str, in_params, opts, side_results,
                             wave_params, result, windows>>
       /\ Planned => plan' = plan]_vars

\* A plan computed over a buffer of six stereo frames that stays as decoded;
\* the same six plan inputs also occur with other sample widths, channel
\* counts, frame contents and fade-in times.
C17_Witness ==
    /\ pc = "planned"
    /\ in_params.nframes = 6
    /\ in_params.nchannels = 2
    /\ in_params.sampwidth = 4
    /\ opts.wave_fade_in = 3
    /\ plan.cut_length > 0
    /\ plan.extra_length > 0
    /\ main_wave = DecodeOf(src_frames_str, in_params)
    /\ BufferFrame(5) = InputFrame(5)

C19_DecodedIs2D ==
    pc \in {"decoded", "planned"} =>
        /\ main_wave.shape = <<in_params.nframes, in_params.nchannels>>
        /\ (pc = "planned" /\ plan.mix_length > 0) =>
               Slice(main_wave, plan.dest_start, plan.dest_stop).shape
                   = FadeOutSlider(plan.mix_length, in_params.nchannels).shape

\* The same for more than one channel.
C19_DecodedIs2DForStereo ==
    (pc \in {"decoded", "planned"} /\ in_params.nchannels > 1) =>
        /\ main_wave.shape = <<in_params.nframes, in_params.nchannels>>
        /\ (pc = "planned" /\ plan.mix_length > 0) =>
               Slice(main_wave, plan.dest_start, plan.dest_stop).shape
                   = FadeOutSlider(plan.mix_length, in_params.nchannels).shape

\* The places of the MRO, most specialized class first.
MRO == [c \in 1..MaxClasses |-> c]

\* The classes that define the method, most specialized first.
Defining(meth) ==
    LET Has(c) == ax_defs[c][meth]
    IN  SelectSeq(MRO, Has)

\* The events of `meth` of kind `ev` in the trace.
EventsOf(ev, meth) ==
    LET Is(e) == e.ev = ev /\ e.meth = meth
    IN  SelectSeq(ax_trace, Is)

\* The trace without the methods that call-next methods of before, primary
\* and after methods called: the around methods entered and left, and the
\* methods _next_around called itself.
MainTrace ==
    LET Is(e) == \/ e.meth = "around" /\ e.ev \in {"enter", "exit"}
                 \/ e.meth # "around" /\ e.ev = "enter" /\ e.via = "auto"
        main == SelectSeq(ax_trace, Is)
    IN  [i \in 1..Len(main) |-> <<main[i].ev, main[i].meth, main[i].cls>>]

\* The before, primary and after methods have been called by _next_around.
TailRan == \E i \in 1..Len(ax_trace) :
               ax_trace[i].meth = "primary" /\ ax_trace[i].via = "auto"

\* The most specialized method of the kind, entered, if there is one.
MostSpecialized(meth) ==
    IF Defining(meth) = <<>> THEN <<>>
    ELSE <<<<"enter", meth, Head(Defining(meth))>>>>

\* C20: a call of the wrapper enters the around methods from the most
\* specialized class down the MRO, each only after the one before it called
\* its call-next method; after the last one called its call-next method (or
\* with no around method at all), the most specialized before method, the
\* most specialized primary method and the most specialized after method are
\* called in this order; then the around methods are left in reverse order.
\* The innermost call-next returns the value of the primary method, which the
\* wrapper returns when there is no around method; the values of the before
\* and after methods are never returned by the wrapper.
C20_CallOrder ==
    ax_pc = "done" =>
        LET arounds == Defining("around")
            j == Len(EventsOf("enter", "around"))
            nexts == EventsOf("next", "around")
            backs == EventsOf("back", "around")
            pri == Val("primary", Head(Defining("primary")))
        IN  /\ j <= Len(arounds)
            /\ arounds # <<>> => j >= 1
            /\ Len(nexts) \in {j - 1, j}
            /\ \A i \in 1..Len(nexts) : nexts[i].cls = arounds[i]
            /\ TailRan = (j = Len(arounds) /\ Len(nexts) = j)
            /\ MainTrace =
                   [i \in 1..j |-> <<"enter", "around", arounds[i]>>]
                   \o (IF TailRan
                       THEN MostSpecialized("before")
                            \o MostSpecialized("primary")
                            \o MostSpecialized("after")
                       ELSE <<>>)
                   \o [i \in 1..j |-> <<"exit", "around", arounds[j + 1 - i]>>]
            /\ (TailRan /\ j >= 1) =>
                   /\ backs[1].cls = arounds[j]
                   /\ backs[1].val = pri
            /\ j = 0 => ax_result = pri
            /\ ax_result[1] \notin {"before", "after"}

\* A finished call through two around methods that both called their
\* call-next method, with before, primary and after methods in both classes.
C20_Witness ==
    /\ ax_pc = "done"
    /\ \A s \in SUFFIXES : ax_defs[1][s] /\ ax_defs[2][s]
    /\ Len(EventsOf("next", "around")) = 2
    /\ TailRan
    /\ ax_result = Val("primary", 1)
    /\ Len(EventsOf("enter", "before")) = 2
    /\ Len(EventsOf("enter", "after")) = 1

\* The classes after class c in the MRO that define the method, nearest
\* first.
DefiningAfter(meth, c) ==
    LET Has(d) == d > c /\ ax_defs[d][meth]
    IN  SelectSeq(MRO, Has)

\* Event i of the trace is the call of the call-next method of `meth` in
\* class c, and event j the return of that call.
IsExplicitCall(i, j, meth, c) ==
    /\ ax_trace[i].ev = "next" /\ ax_trace[i].meth = meth
    /\ ax_trace[i].cls = c
    /\ j > i
    /\ ax_trace[j].ev = "back" /\ ax_trace[j].meth = meth
    /\ ax_trace[j].cls = c
    /\ \A k \in (i + 1)..(j - 1) :
           ~(ax_trace[k].ev = "back" /\ ax_trace[k].meth = meth
                 /\ ax_trace[k].cls = c)

\* C21: of the before methods, and of the after methods, the wrapper's call
\* runs by itself at most one, that of the most specialized class that has
\* one; any other run of a before/after method comes right after a more
\* specialized method of the same kind called its call-next method, is the
\* method of the nearest class down the MRO that has one, happens once for
\* that call and ends before the call returns.
C21_OnlyMostSpecializedAuto ==
    ax_pc = "done" =>
        \A m \in {"before", "after"} :
            LET IsAuto(e) == e.ev = "enter" /\ e.meth = m /\ e.via = "auto"
                autos == SelectSeq(ax_trace, IsAuto)
            IN  /\ Len(autos) <= 1
                /\ Len(autos) = 1 => autos[1].cls = Head(Defining(m))
                /\ (Len(autos) = 1) = (TailRan /\ Defining(m) # <<>>)
                /\ \A i \in 1..Len(ax_trace) :
                       (ax_trace[i].ev = "enter" /\ ax_trace[i].meth = m
                            /\ ~IsAuto(ax_trace[i])) =>
                           /\ i > 1
                           /\ ax_trace[i - 1].ev = "next"
                           /\ ax_trace[i - 1].meth = m
                           /\ ax_trace[i - 1].cls < ax_trace[i].cls
                /\ \A i \in 1..Len(ax_trace) :
                       (ax_trace[i].ev = "next" /\ ax_trace[i].meth = m) =>
                           LET c == ax_trace[i].cls
                               supers == DefiningAfter(m, c)
                           IN  \E j \in (i + 1)..Len(ax_trace) :
                                   /\ IsExplicitCall(i, j, m, c)
                                   /\ \A k \in (i + 1)..(j - 1) :
                                          /\ ax_trace[k].meth = m
                                          /\ ax_trace[k].cls > c
                                   /\ IF supers = <<>>
                                      THEN j = i + 1
                                      ELSE /\ ax_trace[i + 1].ev = "enter"
                                           /\ ax_trace[i + 1].cls = Head(supers)
                                           /\ ax_trace[j - 1].ev = "exit"
                                           /\ ax_trace[j - 1].cls = Head(supers)
                                           /\ \A k \in (i + 2)..(j - 1) :
                                                  ~(ax_trace[k].ev = "enter"
                                                    /\ ax_trace[k].cls
                                                           = Head(supers))

\* A finished call in which both classes have before and after methods, the
\* superclass's after method ran inside the explicit call of the subclass's
\* after method, and the superclass's before method did not run at all.
C21_Witness ==
    /\ ax_pc = "done"
    /\ ax_defs[1]["before"] /\ ax_defs[2]["before"]
    /\ ax_defs[1]["after"] /\ ax_defs[2]["after"]
    /\ Len(EventsOf("enter", "before")) = 1
    /\ Len(EventsOf("next", "before")) = 0
    /\ Len(EventsOf("enter", "after")) = 2
    /\ Len(EventsOf("next", "after")) >= 1

\* The generated call-next method of a primary, before or after method of a
\* class with no such method further down the MRO returned None, and nothing
\* ran in between.
NoSuperReturnsNone ==
    \A i \in 1..Len(ax_trace) :
        LET e == ax_trace[i]
        IN  (e.ev = "next" /\ e.meth # "around"
                /\ DefiningAfter(e.meth, e.cls) = <<>>)
            => /\ i < Len(ax_trace)
               /\ ax_trace[i + 1] = [e EXCEPT !.ev = "back", !.val = None]

\* What _next_around calls on self once no around method is left: the before
\* method if any, the primary method, the after method if any; nothing after
\* the before method when no class defines the primary method.
TailOnSelf ==
    LET One(m) == IF Defining(m) = <<>> THEN <<>>
                  ELSE <<[meth |-> m, cls |-> Head(Defining(m))]>>
    IN  One("before") \o
        (IF Defining("primary") = <<>> THEN <<>>
         ELSE One("primary") \o One("after"))

\* The generated call-next method of the least specialized around method went
\* through the before/primary/after sequence on self and returned the primary
\* method's result.
AroundFallsThrough ==
    \A i \in 1..Len(ax_trace) :
        LET e == ax_trace[i]
            rest == SubSeq(ax_trace, i + 1, Len(ax_trace))
            IsAuto(x) == x.ev = "enter" /\ x.via = "auto"
            autos == SelectSeq(rest, IsAuto)
            IsBack(x) == x.ev = "back" /\ x.meth = "around" /\ x.cls = e.cls
            backs == SelectSeq(rest, IsBack)
        IN  (e.ev = "next" /\ e.meth = "around"
                /\ DefiningAfter("around", e.cls) = <<>>)
            => /\ [k \in 1..Len(autos) |->
                      [meth |-> autos[k].meth, cls |-> autos[k].cls]]
                  = TailOnSelf
               /\ Defining("primary") # <<>>
                  => /\ Len(backs) = 1
                     /\ backs[1].val = Val("primary", Head(Defining("primary")))

\* What holds of the call-next methods in every call of a method by its own
\* name: the two properties above, and AttributeError exactly when an around
\* method's call-next method falls through and no class defines the primary
\* method.
C22_CallNextWithPrimary ==
    /\ ax_pc \in {"done", "raised"} => NoSuperReturnsNone /\ AroundFallsThrough
    /\ ax_pc = "raised"
       => /\ Defining("primary") = <<>>
          /\ ax_result = Val("AttributeError", 0)
          /\ ax_trace # <<>>
          /\ \E i \in 1..Len(ax_trace) :
                 /\ ax_trace[i].ev = "next"
                 /\ ax_trace[i].meth = "around"
                 /\ DefiningAfter("around", ax_trace[i].cls) = <<>>
                 /\ \A j \in (i + 1)..Len(ax_trace) :
                        ax_trace[j].meth = "before"
    /\ (ax_pc = "done" /\ Defining("primary") = <<>>)
       => \A i \in 1..Len(ax_trace) :
              ~(ax_trace[i].ev = "next" /\ ax_trace[i].meth = "around"
                  /\ DefiningAfter("around", ax_trace[i].cls) = <<>>)

C22_Raised ==
    /\ ax_pc = "raised"
    /\ ax_result = Val("AttributeError", 0)
    /\ Defining("around") # <<>>
    /\ Defining("primary") = <<>>

\* Event i of the trace is an around method entered that returned without
\* calling its call-next method.
AroundStopsAt(i) ==
    /\ i < Len(ax_trace)
    /\ ax_trace[i].ev = "enter"
    /\ ax_trace[i].meth = "around"
    /\ ax_trace[i + 1] = [ax_trace[i] EXCEPT
                              !.ev = "exit",
                              !.val = Val("around", ax_trace[i].cls)]

\* Nothing but more specialized around methods ran in the call: no less
\* specialized around method, no before, primary or after method.
NothingBelow(i) ==
    \A j \in 1..Len(ax_trace) :
        /\ ax_trace[j].meth = "around"
        /\ ax_trace[j].cls <= ax_trace[i].cls

\* C23 as stated: when an around method returns without calling its
\* call-next method, no less specialized around method and no before, primary
\* or after method runs, and the wrapper returns what that around method
\* returned.
C23_AroundStops ==
    ax_pc = "done" =>
        \A i \in 1..Len(ax_trace) :
            AroundStopsAt(i)
            => /\ NothingBelow(i)
               /\ ax_result = ax_trace[i + 1].val

\* C23 amended: when an around method returns without calling its call-next
\* method, no less specialized around method and no before, primary or after
\* method runs; what it returned is what the call-next method of the around
\* method above it returns, or what the wrapper returns if it is the most
\* specialized around method; the wrapper returns what the most specialized
\* around method returns.
C23_AroundStopsChain ==
    ax_pc = "done" =>
        \A i \in 1..Len(ax_trace) :
            AroundStopsAt(i)
            => /\ NothingBelow(i)
               /\ ax_trace[1].ev = "enter"
               /\ ax_trace[1].cls = Head(Defining("around"))
               /\ ax_trace[Len(ax_trace)] =
                      [ax_trace[1] EXCEPT !.ev = "exit", !.val = ax_result]
               /\ i = 1 => ax_result = ax_trace[i + 1].val
               /\ i > 1 => /\ ax_trace[i - 1].ev = "next"
                           /\ ax_trace[i - 1].meth = "around"
                           /\ ax_trace[i - 1].cls < ax_trace[i].cls
                           /\ ax_trace[i + 2] =
                                  [ax_trace[i - 1] EXCEPT
                                       !.ev = "back",
                                       !.val = ax_trace[i + 1].val]

\* The less specialized of two around methods returned without calling its
\* call-next method, and the wrapper returned the other one's own value.
C23_Witness ==
    /\ ax_pc = "done"
    /\ ax_defs[1]["around"]
    /\ ax_defs[2]["around"]
    /\ Len(ax_trace) = 6
    /\ AroundStopsAt(3)
    /\ ax_trace[3].cls = 2
    /\ ax_result = Val("around", 1)

\* C25: at every in-place resize of the sample buffer (the one of the decode
\* and the one after the mix) no slice of the buffer taken earlier is alive,
\* and every slice read or written was taken from the buffer after its last
\* resize: the windows of the mix before the second resize, the source and
\* the destination of the extra copy and the fade-in window after it.
C25_NoLiveWindowAtResize ==
    /\ Len(windows.at_resize) = windows.resizes
    /\ \A k \in 1..Len(windows.at_resize) : windows.at_resize[k] = {}
    /\ \A u \in windows.used : u.taken = u.used
    /\ \A u \in windows.used :
           u.name \in {"extra_source", "extra_place", "fade_in_place"}
           => u.taken = windows.resizes

\* A call that resized the buffer twice, blended through the two mix windows
\* before the second resize and copied the extra frames and faded in after it.
C25_Witness ==
    /\ pc = "returned"
    /\ windows.resizes = 2
    /\ windows.live = {}
    /\ windows.used =
           {[name |-> "fade_in_src", taken |-> 1, used |-> 1],
            [name |-> "fade_out_place", taken |-> 1, used |-> 1],
            [name |-> "extra_source", taken |-> 2, used |-> 2],
            [name |-> "extra_place", taken |-> 2, used |-> 2],
            [name |-> "fade_in_place", taken |-> 2, used |-> 2]}

\* The steps of process() in the order of the code.
StepOrder == <<"start", "decoded", "planned", "mixed", "resized", "fadedin",
               "returned">>

\* C24: every step of a call is the next one of decode, plan, mix,
\* resize/extra copy, start fade-in, encode, or the raise that ends the call;
\* so a call that returns has done each of them once, in this order. Each
\* step finds what its predecessor left: the plan is made over the decoded
\* buffer, the mix follows a plan that passed the checks, the resize follows
\* the recorded loop offsets, the fade-in works on the buffer of the new frame
\* count and keeps its shape, and the encoded frames are those of the
\* faded-in buffer.
C24_StepsInOrder ==
    [][/\ pc \notin {"returned", "raised"}
       /\ \/ pc' = "raised" /\ error' # "none"
          \/ /\ error' = "none"
             /\ \E k \in 1..(Len(StepOrder) - 1) :
                    pc = StepOrder[k] /\ pc' = StepOrder[k + 1]
       /\ pc = "start" => plan = NoPlan /\ side_results = <<>>
       /\ pc = "decoded" => /\ main_wave = DecodeOf(src_frames_str, in_params)
                            /\ plan = NoPlan
       /\ pc = "planned" => /\ PlanError(plan) = "none"
                            /\ side_results = <<>>
                            /\ main_wave = DecodeOf(src_frames_str, in_params)
       /\ pc = "mixed" => /\ side_results = LoopOffsets(plan)
                          /\ NRows(main_wave) = in_params.nframes
                          /\ wave_params = in_params
       /\ pc = "resized"
          => /\ NRows(main_wave) = plan.dest_stop + plan.extra_length
             /\ wave_params.nframes = plan.dest_stop + plan.extra_length
             /\ pc' = "fadedin" => main_wave'.shape = main_wave.shape
             /\ result = NoResult
       /\ pc = "fadedin"
          => /\ result = NoResult
             /\ result'.result_frames
                    = tostring(main_wave, wave_params.sampwidth)
             /\ main_wave' = main_wave]_vars

\* A call that returned after a resize to another frame count, an extra copy
\* and a fade-in of at least one frame.
C24_Witness ==
    /\ pc = "returned"
    /\ error = "none"
    /\ plan.extra_length > 0
    /\ result.wave_params.nframes # in_params.nframes
    /\ FadeInLen >= 1
    /\ side_results = LoopOffsets(plan)
    /\ Len(result.result_frames)
           = result.wave_params.nframes * in_params.nchannels
                 * in_params.sampwidth

\* What a window of no frames does: _make_cosinus_slider divides pi by the
\* window length, so the mix of a plan with mix_length = 0 and the fade-in of
\* fade_in_len = 0 end the call with ZeroDivisionError before any frame is
\* touched, and no call with such a window returns.
C27_ZeroWindowRaises ==
    /\ (PlanOK /\ plan.mix_length = 0 /\ MixRan)
       => /\ pc = "raised"
          /\ error = "ZeroDivisionError"
          /\ main_wave = DecodeOf(src_frames_str, in_params)
    /\ FadeInLen = 0 => pc \notin {"fadedin", "returned"}
    /\ (FadeInLen = 0 /\ pc = "raised" /\ ExtraRan /\ error # "ValueError")
       => error = "ZeroDivisionError"

\* C27: windows of no frames are no-ops: when the plan passed the checks with
\* mix_length = 0 the mix changes no frame and does not raise, when
\* fade_in_len = 0 the fade-in changes no frame and does not raise, and the
\* call returns its result.
C27_ZeroWindowsAreNoOps ==
    /\ (PlanOK /\ plan.mix_length = 0 /\ MixRan)
       => /\ ~RaisedInMix
          /\ pc = "mixed" => main_wave = DecodeOf(src_frames_str, in_params)
    /\ (FadeInLen = 0 /\ in_params.nchannels = 2 /\ PlanOK
            /\ plan.mix_length > 0)
       => pc # "raised"

\* The two cases: a mix window of no frames, and a fade-in window of no
\* frames after a mix and a resize that went through.
C27_Raised ==
    /\ pc = "raised"
    /\ error = "ZeroDivisionError"
    /\ in_params.nchannels = 2
    /\ \/ PlanOK /\ plan.mix_length = 0 /\ FadeInLen > 0
       \/ plan.mix_length > 0 /\ FadeInLen = 0 /\ ExtraRan

\* The rows of main_wave.array[0:fade_in_len] and of the slider built for
\* fade_in_len rows, for the buffer as it is.
FadeInPlaceRows == NRows(Slice(main_wave, 0, FadeInLen))

FadeInSliderRows ==
    NRows(make_cosinus_slider(1, 2, FadeInLen, in_params.nchannels))

\* What holds of the fade-in window: the slice is clipped to the buffer, so
\* no frame outside the buffer is read or written; a fade-in longer than the
\* resized buffer ends the call with ValueError and the buffer as the resize
\* left it, and no such call returns.
C28_FadeInClipped ==
    /\ (pc = "resized" /\ FadeInLen > 0)
       => /\ FadeInPlaceRows = Min(FadeInLen, NRows(main_wave))
          /\ FadeInSliderRows = FadeInLen
          /\ NRows(main_wave) = plan.new_nframes
    /\ (PlanOK /\ FadeInLen > plan.new_nframes)
       => /\ pc \notin {"fadedin", "returned"}
          /\ (pc = "raised" /\ ExtraRan /\ in_params.nchannels = 2)
             => /\ error = "ValueError"
                /\ NRows(main_wave) = plan.new_nframes

\* C28: whenever planning succeeds, for every fade-in length of at least one
\* frame (also one longer than the resized buffer) the fade-in window and its
\* slider have the same number of rows, and the call completes with a buffer
\* of new_nframes frames.
C28_FadeInFits ==
    /\ (pc = "resized" /\ FadeInLen > 0) => FadeInPlaceRows = FadeInSliderRows
    /\ (PlanOK /\ in_params.nchannels = 2 /\ plan.mix_length > 0
            /\ FadeInLen > 0)
       => /\ pc # "raised"
          /\ pc = "returned" => NRows(main_wave) = plan.new_nframes

\* A fade-in of three frames over a resized buffer of two.
C28_Raised ==
    /\ pc = "raised"
    /\ error = "ValueError"
    /\ in_params.nchannels = 2
    /\ ExtraRan
    /\ NRows(main_wave) = 2
    /\ FadeInLen = 3

\* C29: the 'sample too short' check comes first: a plan with
\* src_stop > dest_start is reported as 'too short' whether or not
\* src_stop + extra_length > dest_stop as well, and 'extra too wide' is
\* reported only for plans with 0 <= src_start <= src_stop <= dest_start <=
\* dest_stop <= nframes, whose extra area alone is too wide.
C29_ShortCheckFirst ==
    Planned =>
        /\ plan.src_stop > plan.dest_start
           => pc = "raised" /\ error = "too_short"
        /\ error = "too_short" => plan.src_stop > plan.dest_start
        /\ error = "extra_too_wide"
           => /\ pc = "raised"
              /\ plan.src_stop + plan.extra_length > plan.dest_stop
              /\ 0 <= plan.src_start
              /\ plan.src_start <= plan.src_stop
              /\ plan.src_stop <= plan.dest_start
              /\ plan.dest_start <= plan.dest_stop
              /\ plan.dest_stop <= in_params.nframes
        /\ (plan.src_stop <= plan.dest_start
                /\ plan.src_stop + plan.extra_length > plan.dest_stop)
           => error = "extra_too_wide"

\* A plan that violates both conditions, with windows that would overlap, is
\* reported as 'too short'.
C29_Witness ==
    /\ pc = "raised"
    /\ error = "too_short"
    /\ plan.extra_length > 0
    /\ plan.src_stop > plan.dest_start
    /\ plan.src_stop + plan.extra_length > plan.dest_stop
    /\ plan.dest_start >= 0

\* The files main() has opened for reading, or tried to, in order.
Opened ==
    LET IsOpen(e) == e.op \in {"open_rb", "open_rb_failed"}
    IN  SelectSeq(io_log, IsOpen)

\* The result of the k-th file is on the disk under its output name: the
\* parameters and frames process() returned for it, and its chunk after them.
Written(k) ==
    /\ k <= Len(calls)
    /\ calls[k].pc = "returned"
    /\ disk[OutName(k)] =
           [exists |-> TRUE,
            wp |-> calls[k].result.wave_params,
            frames |-> calls[k].result.result_frames,
            tail |-> <<calls[k].result.to_append_str>>]

SuccessLogged ==
    \E j \in 1..Len(io_log) :
        io_log[j].op \in {"log_all_files_processed", "log_file_processed"}

\* C26: main() takes the files in the order of the command line, each once;
\* the first error ends the run with exit status 1: it is logged last, no
\* later file is opened, read or written, the failing file is not written,
\* and the results of the files completed before it are on the disk; the
\* success message is logged only when every file has been processed and
\* written, and then with exit status 0.
C26_StopsOnFirstError ==
    /\ Len(Opened) \in {file_index, file_index + 1}
    /\ \A j \in 1..Len(Opened) : Opened[j].base = file_names[j]
    /\ \A j \in 1..Len(io_log) :
           /\ io_log[j].base # 0
              => \E k \in 1..Len(Opened) : io_log[j].base = file_names[k]
           /\ io_log[j].op \in {"log_error", "open_rb_failed"}
              => exit_status = 1
           /\ io_log[j].op = "log_error" => j = Len(io_log)
    /\ \A k \in 1..file_index : Written(k)
    /\ (exit_status = 1) = (main_pc = "exited")
    /\ exit_status = 1
       => /\ file_index < Len(file_names)
          /\ Len(Opened) = file_index + 1
          /\ io_log[Len(io_log)] = IO("log_error", InName(file_index + 1))
          /\ \A j \in 1..Len(io_log) :
                 io_log[j].base = file_names[file_index + 1]
                 => io_log[j].op \in {"open_rb", "readframes", "close_rb",
                                      "open_rb_failed", "log_error"}
          /\ ~overwrite => ~disk[OutName(file_index + 1)].exists
          /\ ~SuccessLogged
          /\ ~ENABLED MainNext
    /\ SuccessLogged
       => /\ file_index = Len(file_names)
          /\ Len(calls) = Len(file_names)
          /\ exit_status = 0
          /\ main_pc = "finished"
    /\ (exit_status = 0) = SuccessLogged

\* The second of three files failed inside process(): the first one's result
\* is on the disk, the third has not been touched.
C26_Witness ==
    /\ exit_status = 1
    /\ Len(file_names) = 3
    /\ file_index = 1
    /\ error = "too_short"
    /\ Written(1)
    /\ disk[InName(3)].exists
    /\ Len(Opened) = 2

\* What main() does to the files of one name of the command line, in the
\* order of the code.
FileOps ==
    <<"open_rb", "readframes", "close_rb", "open_wb", "writeframes",
      "close_wb", "open_ab", "write_chunk", "close_ab">>

\* What main() has done so far to the k-th file and to its output file.
OpsOf(k) ==
    LET Is(e) == e.base = file_names[k] /\ e.op # "log_error"
        es == SelectSeq(io_log, Is)
    IN  [j \in 1..Len(es) |-> es[j].op]

\* C30: for each file, main() opens the input, reads all its frames and
\* closes it before it opens the output file for writing (under --overwrite
\* the same file, still whole on the disk until then), writes the frames and
\* closes the wave writer before it opens the file for appending, and appends
\* the chunk once, after the frames.
C30_ReadThenWriteThenAppend ==
    /\ \A k \in 1..Len(Opened) :
           /\ \/ OpsOf(k) = <<"open_rb_failed">>
              \/ /\ Len(OpsOf(k)) <= Len(FileOps)
                 /\ OpsOf(k) = SubSeq(FileOps, 1, Len(OpsOf(k)))
           /\ \A j \in 1..Len(io_log) :
                  io_log[j].base = file_names[k]
                  => io_log[j].suffix =
                         IF io_log[j].op \in {"open_wb", "writeframes",
                                              "close_wb", "open_ab",
                                              "write_chunk", "close_ab"}
                         THEN OutName(k).suffix
                         ELSE InName(k).suffix
           /\ k <= file_index => OpsOf(k) = FileOps /\ Written(k)
    /\ main_pc = "process"
       => /\ OpsOf(file_index + 1) = SubSeq(FileOps, 1, 3)
          /\ disk[InName(file_index + 1)].exists
          /\ src_frames_str = disk[InName(file_index + 1)].frames
          /\ in_params = disk[InName(file_index + 1)].wp
          /\ Len(src_frames_str) = in_params.nframes * in_params.nchannels
                                       * in_params.sampwidth
    /\ main_pc = "written"
       => /\ OpsOf(file_index + 1) = SubSeq(FileOps, 1, 6)
          /\ disk[OutName(file_index + 1)] =
                 [exists |-> TRUE, wp |-> result.wave_params,
                  frames |-> result.result_frames, tail |-> <<>>]

\* A file overwritten by its result: read whole, then replaced by frames that
\* differ from what was read, then given its chunk.
C30_Witness ==
    /\ overwrite
    /\ main_pc = "loop"
    /\ file_index = 1
    /\ OpsOf(1) = FileOps
    /\ OutName(1) = InName(1)
    /\ disk[InName(1)].frames # calls[1].src_frames_str
    /\ disk[InName(1)].tail = <<calls[1].result.to_append_str>>
    /\ Len(calls[1].result.to_append_str) = 68


============================================================================
